---- MODULE Spec2Model ----
(***************************************************************************)
(* Model of the GitSmart patch filter (createFilteredPatch), the diff      *)
(* structurer (parseDiff) and the staging loop (stageFilteredChanges).     *)
(* Texts and lines are strings; a string is a sequence of characters, so   *)
(* prefixes, trimming, splitting and the hunk-header patterns are computed *)
(* character by character as the JavaScript code computes them.            *)
(***************************************************************************)
EXTENDS Integers, Sequences, FiniteSets, TLC

(***************************************************************************)
(* String primitives of the JavaScript runtime used by the code.           *)
(***************************************************************************)
CharAt(s, i) == SubSeq(s, i, i)

\* String.prototype.startsWith
StartsWith(s, p) == Len(s) >= Len(p) /\ SubSeq(s, 1, Len(p)) = p

\* String.prototype.substring(from) with a 0-based index
Substring(s, from) == SubSeq(s, from + 1, Len(s))

\* String.prototype.includes
Includes(s, sub) ==
  \E k \in 0..(Len(s) - Len(sub)) : SubSeq(s, k + 1, k + Len(sub)) = sub

\* the characters that trim() and the pattern class \s remove or match
IsSpace(c) == c \in {" ", "\t", "\r", "\n"}

\* the pattern class \d
IsDigit(c) == c \in {"0", "1", "2", "3", "4", "5", "6", "7", "8", "9"}

RECURSIVE TrimStart(_)
TrimStart(s) ==
  IF Len(s) > 0 /\ IsSpace(CharAt(s, 1)) THEN TrimStart(Substring(s, 1)) ELSE s

RECURSIVE TrimEnd(_)
TrimEnd(s) ==
  IF Len(s) > 0 /\ IsSpace(CharAt(s, Len(s)))
  THEN TrimEnd(SubSeq(s, 1, Len(s) - 1))
  ELSE s

\* String.prototype.trim
Trim(s) == TrimEnd(TrimStart(s))

\* String.prototype.split("\n"): the empty text splits into one empty line
RECURSIVE Split(_)
Split(s) ==
  LET nl == {i \in 1..Len(s) : CharAt(s, i) = "\n"}
  IN IF nl = {} THEN <<s>>
     ELSE LET first == CHOOSE i \in nl : \A j \in nl : i <= j
          IN <<SubSeq(s, 1, first - 1)>> \o Split(Substring(s, first))

\* Array.prototype.join("\n"): the empty array joins to the empty text
RECURSIVE Join(_)
Join(ls) ==
  IF Len(ls) = 0 THEN ""
  ELSE IF Len(ls) = 1 THEN ls[1]
  ELSE ls[1] \o "\n" \o Join(Tail(ls))

DigitValue(c) ==
  CASE c = "0" -> 0 [] c = "1" -> 1 [] c = "2" -> 2 [] c = "3" -> 3
    [] c = "4" -> 4 [] c = "5" -> 5 [] c = "6" -> 6 [] c = "7" -> 7
    [] c = "8" -> 8 [] c = "9" -> 9

DigitChar(d) ==
  CASE d = 0 -> "0" [] d = 1 -> "1" [] d = 2 -> "2" [] d = 3 -> "3"
    [] d = 4 -> "4" [] d = 5 -> "5" [] d = 6 -> "6" [] d = 7 -> "7"
    [] d = 8 -> "8" [] d = 9 -> "9"

\* parseInt of a captured run of decimal digits
RECURSIVE ParseInt(_)
ParseInt(ds) ==
  IF Len(ds) = 0 THEN 0
  ELSE 10 * ParseInt(SubSeq(ds, 1, Len(ds) - 1)) + DigitValue(CharAt(ds, Len(ds)))

\* the text a template literal `${n}` produces for an integer
RECURSIVE NatToString(_)
NatToString(n) ==
  IF n < 10 THEN DigitChar(n) ELSE NatToString(n \div 10) \o DigitChar(n % 10)

IntToString(n) == IF n < 0 THEN "-" \o NatToString(0 - n) ELSE NatToString(n)

(***************************************************************************)
(* Regular expressions.  A configured pattern is compiled by new RegExp    *)
(* without flags, so test() is stateless.  A compiled pattern is the       *)
(* record of what it accepts: with anchored, "^\s*" followed by one of the *)
(* literal alternatives; without, one of the literals anywhere.  valid is  *)
(* FALSE for a pattern string that new RegExp rejects with a SyntaxError.  *)
(***************************************************************************)
LitAt(s, i, lit) ==
  i >= 1 /\ i + Len(lit) - 1 <= Len(s) /\ SubSeq(s, i, i + Len(lit) - 1) = lit

\* RegExp.prototype.test
RegexTest(regex, s) ==
  \E k \in 0..Len(s) :
    /\ regex.anchored => \A j \in 1..k : IsSpace(CharAt(s, j))
    /\ \E lit \in regex.alts : LitAt(s, k + 1, lit)

\* "^\\s*console\\.(log|error|warn)\\("
ConsolePattern ==
  [valid |-> TRUE, anchored |-> TRUE,
   alts |-> {"console.log(", "console.error(", "console.warn("}]

\* "^\\s*debugger;"
DebuggerPattern == [valid |-> TRUE, anchored |-> TRUE, alts |-> {"debugger;"}]

\* the default value of the setting gitsmart.filterPatterns
DefaultPatterns == <<ConsolePattern, DebuggerPattern>>

\* a pattern a user configures: "TODO"
TodoPattern == [valid |-> TRUE, anchored |-> FALSE, alts |-> {"TODO"}]

\* a pattern a user configures: "No newline"
NoNewlinePattern == [valid |-> TRUE, anchored |-> FALSE, alts |-> {"No newline"}]

\* a pattern a user configures: "(" (an unterminated group)
UnterminatedGroup == [valid |-> FALSE, anchored |-> FALSE, alts |-> {}]

\* patterns.map((pattern) => new RegExp(pattern)) throws a SyntaxError
RegExpThrows(patterns) == \E r \in 1..Len(patterns) : ~patterns[r].valid

(***************************************************************************)
(* The hunk-header pattern of the patch filter:                            *)
(*   /@@ -(\d+),(\d+) \+(\d+),(\d+) @@/                                    *)
(* It is not anchored: String.match returns the leftmost match.            *)
(***************************************************************************)
\* the index after the longest run of digits that starts at index i
DigitRunEnd(s, i) ==
  CHOOSE j \in i..(Len(s) + 1) :
    /\ \A k \in i..(j - 1) : IsDigit(CharAt(s, k))
    /\ j = Len(s) + 1 \/ ~IsDigit(CharAt(s, j))

NoMatch == [ok |-> FALSE]

FilterHeaderMatchAt(s, p) ==
  IF ~LitAt(s, p, "@@ -") THEN NoMatch
  ELSE LET a1 == p + 4
           e1 == DigitRunEnd(s, a1)
       IN IF e1 = a1 \/ ~LitAt(s, e1, ",") THEN NoMatch
          ELSE LET a2 == e1 + 1
                   e2 == DigitRunEnd(s, a2)
               IN IF e2 = a2 \/ ~LitAt(s, e2, " +") THEN NoMatch
                  ELSE LET a3 == e2 + 2
                           e3 == DigitRunEnd(s, a3)
                       IN IF e3 = a3 \/ ~LitAt(s, e3, ",") THEN NoMatch
                          ELSE LET a4 == e3 + 1
                                   e4 == DigitRunEnd(s, a4)
                               IN IF e4 = a4 \/ ~LitAt(s, e4, " @@") THEN NoMatch
                                  ELSE [ok |-> TRUE,
                                        g1 |-> SubSeq(s, a1, e1 - 1),
                                        g2 |-> SubSeq(s, a2, e2 - 1),
                                        g3 |-> SubSeq(s, a3, e3 - 1),
                                        g4 |-> SubSeq(s, a4, e4 - 1)]

\* currentHunk[0].match(/@@ -(\d+),(\d+) \+(\d+),(\d+) @@/)
FilterHeaderMatch(s) ==
  LET at == {p \in 1..Len(s) : FilterHeaderMatchAt(s, p).ok}
  IN IF at = {} THEN NoMatch
     ELSE FilterHeaderMatchAt(s, CHOOSE p \in at : \A q \in at : p <= q)

(***************************************************************************)
(* createFilteredPatch: the patch filter.                                  *)
(***************************************************************************)
\* the file-header test with the "index " prefix forgotten
IsFileHeaderWithoutIndex(line) ==
  \/ StartsWith(line, "diff ")
  \/ StartsWith(line, "--- ")
  \/ StartsWith(line, "+++ ")

\* the "keep file headers" test of the loop, applied to every line
IsFileHeader(line) ==
  \/ StartsWith(line, "diff ")
  \/ StartsWith(line, "index ")
  \/ StartsWith(line, "--- ")
  \/ StartsWith(line, "+++ ")

\* the header rewritten from its captures and the number of skipped lines
RewrittenHeader(m, skippedLines) ==
  LET oldStart == ParseInt(m.g1)
      newStart == ParseInt(m.g3)
      newFinalCount == ParseInt(m.g4) - skippedLines
  IN "@@ -" \o IntToString(oldStart) \o "," \o m.g2 \o " +"
       \o IntToString(newStart) \o "," \o IntToString(newFinalCount) \o " @@"

\* a finalization that flushes the body without a header it cannot rewrite
FinalizeHunkBodyOnly(currentHunk, skippedLines) ==
  LET headerMatch == FilterHeaderMatch(currentHunk[1])
  IN IF headerMatch.ok
     THEN <<RewrittenHeader(headerMatch, skippedLines)>> \o Tail(currentHunk)
     ELSE Tail(currentHunk)

\* "process previous hunk" / "process the last hunk": currentHunk with its
\* header corrected when the header pattern matches it
FinalizeHunk(currentHunk, skippedLines) ==
  LET headerMatch == FilterHeaderMatch(currentHunk[1])
  IN IF headerMatch.ok
     THEN <<RewrittenHeader(headerMatch, skippedLines)>> \o Tail(currentHunk)
     ELSE currentHunk

\* filterRegexes.some((regex) => regex.test(codeLine))
ShouldFilter(filterRegexes, line) ==
  LET codeLine == Trim(Substring(line, 1))
  IN \E r \in 1..Len(filterRegexes) : RegexTest(filterRegexes[r], codeLine)

\* the accumulators before the loop
FilterStart == [filteredLines |-> <<>>, currentHunk |-> <<>>, skippedLines |-> 0]

\* an iteration that keeps the skip count of the hunk before
FilterLineKeepingSkipCount(st, line, filterRegexes) ==
  IF IsFileHeader(line)
  THEN [st EXCEPT !.filteredLines = Append(@, line)]
  ELSE IF StartsWith(line, "@@")
  THEN [filteredLines |->
          IF Len(st.currentHunk) > 0
          THEN st.filteredLines \o FinalizeHunk(st.currentHunk, st.skippedLines)
          ELSE st.filteredLines,
        currentHunk |-> <<line>>,
        skippedLines |-> st.skippedLines]
  ELSE IF Len(st.currentHunk) > 0
  THEN IF StartsWith(line, "+") /\ ShouldFilter(filterRegexes, line)
       THEN [st EXCEPT !.skippedLines = @ + 1]
       ELSE [st EXCEPT !.currentHunk = Append(@, line)]
  ELSE st

\* an iteration that tests every line of a hunk against the rules
FilterLineTestingEveryLine(st, line, filterRegexes) ==
  IF IsFileHeader(line)
  THEN [st EXCEPT !.filteredLines = Append(@, line)]
  ELSE IF StartsWith(line, "@@")
  THEN [filteredLines |->
          IF Len(st.currentHunk) > 0
          THEN st.filteredLines \o FinalizeHunk(st.currentHunk, st.skippedLines)
          ELSE st.filteredLines,
        currentHunk |-> <<line>>,
        skippedLines |-> 0]
  ELSE IF Len(st.currentHunk) > 0
  THEN IF ShouldFilter(filterRegexes, line)
       THEN [st EXCEPT !.skippedLines = @ + 1]
       ELSE [st EXCEPT !.currentHunk = Append(@, line)]
  ELSE st

\* one iteration of "for (const line of lines)"
FilterLine(st, line, filterRegexes) ==
  IF IsFileHeader(line)
  THEN [st EXCEPT !.filteredLines = Append(@, line)]
  ELSE IF StartsWith(line, "@@")
  THEN [filteredLines |->
          IF Len(st.currentHunk) > 0
          THEN st.filteredLines \o FinalizeHunk(st.currentHunk, st.skippedLines)
          ELSE st.filteredLines,
        currentHunk |-> <<line>>,
        skippedLines |-> 0]
  ELSE IF Len(st.currentHunk) > 0
  THEN IF StartsWith(line, "+") /\ ShouldFilter(filterRegexes, line)
       THEN [st EXCEPT !.skippedLines = @ + 1]
       ELSE [st EXCEPT !.currentHunk = Append(@, line)]
  ELSE st

RECURSIVE FilterLoop(_, _, _)
FilterLoop(st, lines, filterRegexes) ==
  IF Len(lines) = 0 THEN st
  ELSE FilterLoop(FilterLine(st, Head(lines), filterRegexes), Tail(lines),
                  filterRegexes)

\* the lines pushed to filteredLines once the last hunk is processed
FilteredLines(lines, filterRegexes) ==
  LET st == FilterLoop(FilterStart, lines, filterRegexes)
  IN IF Len(st.currentHunk) > 0
     THEN st.filteredLines \o FinalizeHunk(st.currentHunk, st.skippedLines)
     ELSE st.filteredLines

\* a filter that hands its input back
createFilteredPatchUnfiltered(diff, patterns) == diff

createFilteredPatch(diff, patterns) == Join(FilteredLines(Split(diff), patterns))

(***************************************************************************)
(* The earlier createFilteredPatch, with the prefixes of the debug         *)
(* statements written into the code.                                       *)
(***************************************************************************)
\* the earlier test without the trim
ShouldFilterEarlierUntrimmed(line) ==
  LET codeLine == Substring(line, 1)
  IN \/ StartsWith(codeLine, "console.log(")
     \/ StartsWith(codeLine, "console.error(")
     \/ StartsWith(codeLine, "console.warn(")

\* codeLine.startsWith("console.log(") || codeLine.startsWith("console.error(")
\* || codeLine.startsWith("console.warn(")
ShouldFilterEarlier(line) ==
  LET codeLine == Trim(Substring(line, 1))
  IN \/ StartsWith(codeLine, "console.log(")
     \/ StartsWith(codeLine, "console.error(")
     \/ StartsWith(codeLine, "console.warn(")

\* one iteration of "for (const line of lines)"
FilterLineEarlier(st, line) ==
  IF IsFileHeader(line)
  THEN [st EXCEPT !.filteredLines = Append(@, line)]
  ELSE IF StartsWith(line, "@@")
  THEN [filteredLines |->
          IF Len(st.currentHunk) > 0
          THEN st.filteredLines \o FinalizeHunk(st.currentHunk, st.skippedLines)
          ELSE st.filteredLines,
        currentHunk |-> <<line>>,
        skippedLines |-> 0]
  ELSE IF Len(st.currentHunk) > 0
  THEN IF StartsWith(line, "+") /\ ShouldFilterEarlier(line)
       THEN [st EXCEPT !.skippedLines = @ + 1]
       ELSE [st EXCEPT !.currentHunk = Append(@, line)]
  ELSE st

RECURSIVE FilterLoopEarlier(_, _)
FilterLoopEarlier(st, lines) ==
  IF Len(lines) = 0 THEN st
  ELSE FilterLoopEarlier(FilterLineEarlier(st, Head(lines)), Tail(lines))

createFilteredPatchEarlier(diff) ==
  LET st == FilterLoopEarlier(FilterStart, Split(diff))
  IN Join(IF Len(st.currentHunk) > 0
          THEN st.filteredLines \o FinalizeHunk(st.currentHunk, st.skippedLines)
          ELSE st.filteredLines)

(***************************************************************************)
(* parseDiff: the diff structurer.                                         *)
(***************************************************************************)
\* the index after an optional ",\d+" group that may start at index i
OptionalCountEnd(s, i) ==
  IF LitAt(s, i, ",") /\ DigitRunEnd(s, i + 1) > i + 1
  THEN DigitRunEnd(s, i + 1)
  ELSE i

ParseHeaderMatchAt(s, p) ==
  IF ~LitAt(s, p, "@@ -") THEN NoMatch
  ELSE LET a1 == p + 4
           e1 == DigitRunEnd(s, a1)
           c1 == OptionalCountEnd(s, e1)
       IN IF e1 = a1 \/ ~LitAt(s, c1, " +") THEN NoMatch
          ELSE LET a3 == c1 + 2
                   e3 == DigitRunEnd(s, a3)
                   c3 == OptionalCountEnd(s, e3)
               IN IF e3 = a3 \/ ~LitAt(s, c3, " @@") THEN NoMatch
                  ELSE [ok |-> TRUE, g1 |-> SubSeq(s, a3, e3 - 1)]

\* line.match(/@@ -\d+(?:,\d+)? \+(\d+)(?:,\d+)? @@/)
ParseHeaderMatch(s) ==
  LET at == {p \in 1..Len(s) : ParseHeaderMatchAt(s, p).ok}
  IN IF at = {} THEN NoMatch
     ELSE ParseHeaderMatchAt(s, CHOOSE p \in at : \A q \in at : p <= q)

\* hunks, currentHunk (<<>> is null, <<h>> is the hunk h) and the counter
ParseStart == [hunks |-> <<>>, currentHunk |-> <<>>, currentLineNumber |-> 0]

\* an entry that does not take the counter: every entry is on line 0
DiffEntryAtLineZero(type, content, lineNumber) ==
  [type |-> type, content |-> content, lineNumber |-> 0]

DiffEntry(type, content, lineNumber) ==
  [type |-> type, content |-> content, lineNumber |-> lineNumber]

\* currentHunk.lines.push(entry)
PushEntry(st, entry) ==
  [st EXCEPT !.currentHunk =
     <<[@[1] EXCEPT !.lines = Append(@, entry)]>>]

\* an iteration that advances the counter after a removed line as well
ParseLineCountingRemoved(st, line) ==
  IF \/ StartsWith(line, "diff --git")
     \/ StartsWith(line, "index ")
     \/ StartsWith(line, "new file")
     \/ StartsWith(line, "deleted file")
  THEN st
  ELSE IF StartsWith(line, "@@")
  THEN LET match == ParseHeaderMatch(line)
       IN [hunks |-> st.hunks \o st.currentHunk,
           currentHunk |-> <<[header |-> line, lines |-> <<>>]>>,
           currentLineNumber |-> IF match.ok THEN ParseInt(match.g1) ELSE 0]
  ELSE IF Len(st.currentHunk) = 0 THEN st
  ELSE IF StartsWith(line, "\\") THEN st
  ELSE [PushEntry(st, DiffEntry(IF StartsWith(line, "+") THEN "added"
                                ELSE IF StartsWith(line, "-") THEN "removed"
                                ELSE "context",
                                line, st.currentLineNumber))
          EXCEPT !.currentLineNumber = @ + 1]

\* an iteration that takes a line that starts with "\" for a context line
ParseLineKeepingMarkers(st, line) ==
  IF \/ StartsWith(line, "diff --git")
     \/ StartsWith(line, "index ")
     \/ StartsWith(line, "new file")
     \/ StartsWith(line, "deleted file")
  THEN st
  ELSE IF StartsWith(line, "@@")
  THEN LET match == ParseHeaderMatch(line)
       IN [hunks |-> st.hunks \o st.currentHunk,
           currentHunk |-> <<[header |-> line, lines |-> <<>>]>>,
           currentLineNumber |-> IF match.ok THEN ParseInt(match.g1) ELSE 0]
  ELSE IF Len(st.currentHunk) = 0 THEN st
  ELSE IF StartsWith(line, "+")
  THEN [PushEntry(st, DiffEntry("added", line, st.currentLineNumber))
          EXCEPT !.currentLineNumber = @ + 1]
  ELSE IF StartsWith(line, "-")
  THEN PushEntry(st, DiffEntry("removed", line, st.currentLineNumber))
  ELSE [PushEntry(st, DiffEntry("context", line, st.currentLineNumber))
          EXCEPT !.currentLineNumber = @ + 1]

\* one iteration of the loop of parseDiff
ParseLine(st, line) ==
  IF \/ StartsWith(line, "diff --git")
     \/ StartsWith(line, "index ")
     \/ StartsWith(line, "new file")
     \/ StartsWith(line, "deleted file")
  THEN st
  ELSE IF StartsWith(line, "@@")
  THEN LET match == ParseHeaderMatch(line)
       IN [hunks |-> st.hunks \o st.currentHunk,
           currentHunk |-> <<[header |-> line, lines |-> <<>>]>>,
           currentLineNumber |-> IF match.ok THEN ParseInt(match.g1) ELSE 0]
  ELSE IF Len(st.currentHunk) = 0 THEN st
  ELSE IF StartsWith(line, "+")
  THEN [PushEntry(st, DiffEntry("added", line, st.currentLineNumber))
          EXCEPT !.currentLineNumber = @ + 1]
  ELSE IF StartsWith(line, "-")
  THEN PushEntry(st, DiffEntry("removed", line, st.currentLineNumber))
  ELSE IF ~StartsWith(line, "\\")
  THEN [PushEntry(st, DiffEntry("context", line, st.currentLineNumber))
          EXCEPT !.currentLineNumber = @ + 1]
  ELSE st

RECURSIVE ParseLoop(_, _)
ParseLoop(st, lines) ==
  IF Len(lines) = 0 THEN st
  ELSE ParseLoop(ParseLine(st, Head(lines)), Tail(lines))

\* the binary test with the "GIT binary patch" marker forgotten
IsBinaryDiffByFilesMarker(diff) == Includes(diff, "Binary files")

\* diff.includes("Binary files") || diff.includes("GIT binary patch")
IsBinaryDiff(diff) ==
  Includes(diff, "Binary files") \/ Includes(diff, "GIT binary patch")

\* a result without the isBinary property reads as isBinary = FALSE
parseDiff(diff, filePath, type) ==
  IF IsBinaryDiff(diff)
  THEN [filePath |-> filePath, type |-> type, hunks |-> <<>>, isBinary |-> TRUE]
  ELSE LET st == ParseLoop(ParseStart, Split(diff))
       IN [filePath |-> filePath,
           type |-> type,
           hunks |-> IF Len(st.currentHunk) > 0 /\ Len(st.currentHunk[1].lines) > 0
                     THEN st.hunks \o st.currentHunk
                     ELSE st.hunks,
           isBinary |-> FALSE]

(***************************************************************************)
(* The inputs.  A diff text is at most MaxLines lines, each a hunk header  *)
(* or a body line, or the file preamble followed by at most MaxLines - 1   *)
(* such lines, joined by "\n"; a last empty line is the text's final       *)
(* newline.                                                                *)
(***************************************************************************)
MaxLines == 4

Preambles ==
  { <<>>,
    <<"diff --git a/f b/f", "old mode 100644", "new mode 100755",
      "index 1a..2b", "--- a/f", "+++ b/f">> }

HeaderLines == {"@@ -10,1 +10,2 @@ fn()", "@@ -1 +1 @@"}

BodyLines ==
  {" ctx1", "+console.log('x')", "+keep()", "-old", "+++ TODO", "--- note",
   "\\ No newline at end of file", ""}

SeqsUpTo(S, n) == UNION {[1..k -> S] : k \in 0..n}

\* the lines after the preamble: none, or a hunk header and what follows it,
\* at most n lines
HunkTexts(n) ==
  {<<>>} \cup
  {<<h>> \o rest :
     h \in HeaderLines,
     rest \in SeqsUpTo(HeaderLines \cup BodyLines, n - 1)}

DiffTexts ==
  UNION {{Join(pre \o hunks) :
            hunks \in HunkTexts(IF pre = <<>> THEN MaxLines ELSE MaxLines - 1)} :
         pre \in Preambles}

\* the rule sets of the filter runs: every pattern compiles
RuleSets ==
  {<<>>, DefaultPatterns, <<ConsolePattern, TodoPattern, NoNewlinePattern>>}

\* the settings of a staging run: a pattern may be one that does not compile
StageRuleSets == RuleSets \cup {<<ConsolePattern, UnterminatedGroup>>}

NoFileDiff == [filePath |-> "", type |-> 0, hunks |-> <<>>, isBinary |-> FALSE]

(***************************************************************************)
(* The working tree of the staging run: at most MaxChanges changes, each   *)
(* with its status, the answer of isTextFile and its diff against HEAD.    *)
(***************************************************************************)
MaxChanges == 2

\* "6 => deleted, 7 => untracked"
Deleted == 6
Untracked == 7

\* the change type parseStagedDiffs gives a segment without a mode marker
ModifiedFile == 1

TextDiff ==
  "diff --git a/f b/f\nindex 1a..2b\n--- a/f\n+++ b/f\n@@ -10,3 +10,4 @@\n ctx1\n+console.log('x')\n+keep()\n ctx2\n"

NewFileDiff ==
  "diff --git a/g b/g\nnew file mode 100644\nindex 0..3c\n--- /dev/null\n+++ b/g\n@@ -0,0 +1,2 @@\n+  console.warn('y')\n+init()\n"

DeletedFileDiff ==
  "diff --git a/h b/h\ndeleted file mode 100644\nindex 4d..0\n--- a/h\n+++ /dev/null\n@@ -1 +0,0 @@\n-gone\n"

BinaryDiff ==
  "diff --git a/i.png b/i.png\nindex 5e..6f 100644\nBinary files a/i.png and b/i.png differ\n"

\* a change: its status, the answer of isTextFile and its diff against HEAD
\* (for an untracked file, the diff that adding the file stages)
Change(type, isText, text) == [type |-> type, isText |-> isText, diff |-> text]

\* 5 is the status of a modified tracked file
Changes ==
  { Change(5, TRUE, TextDiff),
    Change(5, TRUE, ""),
    Change(Untracked, TRUE, NewFileDiff),
    Change(Deleted, FALSE, DeletedFileDiff),
    Change(5, FALSE, BinaryDiff),
    Change(5, TRUE, BinaryDiff) }

(***************************************************************************)
(* parseStagedDiffs: the staged diff is split in front of every line that  *)
(* matches  /(?=^diff --git a\/(.*?) b\/(.*?)$)/m  and each piece that     *)
(* holds such a line is handed to parseDiff.                               *)
(***************************************************************************)
\* the index of the "\n" that ends the line holding index p, or Len(s) + 1
LineEnd(s, p) ==
  CHOOSE j \in p..(Len(s) + 1) :
    /\ \A k \in p..(j - 1) : CharAt(s, k) # "\n"
    /\ j = Len(s) + 1 \/ CharAt(s, j) = "\n"

\* the assertion "^" without the m flag's line starts: any index
IsLineStartAnywhere(s, p) == TRUE

\* the assertion "^" under the m flag
IsLineStart(s, p) == p = 1 \/ CharAt(s, p - 1) = "\n"

\* diffSplitRegex matched at index p; (.*?) is lazy, so the first " b/" of
\* the line ends the first capture and the second runs to the end of the line
DiffSplitMatchAt(s, p) ==
  IF ~(IsLineStart(s, p) /\ LitAt(s, p, "diff --git a/")) THEN NoMatch
  ELSE LET a1 == p + 13
           e == LineEnd(s, p)
           bs == {q \in a1..(e - 3) : LitAt(s, q, " b/")}
       IN IF bs = {} THEN NoMatch
          ELSE LET b == CHOOSE q \in bs : \A r \in bs : q <= r
               IN [ok |-> TRUE,
                   g1 |-> SubSeq(s, a1, b - 1),
                   g2 |-> SubSeq(s, b + 3, e - 1)]

\* the indexes where split cuts: an empty match at the start of the text
\* does not cut
DiffSplitPoints(s) == {q \in 2..Len(s) : DiffSplitMatchAt(s, q).ok}

\* the pieces from index p on; split puts the captures of the match that
\* ends a piece after that piece
RECURSIVE SplitFrom(_, _)
SplitFrom(s, p) ==
  LET later == {q \in DiffSplitPoints(s) : q > p}
  IN IF later = {} THEN <<SubSeq(s, p, Len(s))>>
     ELSE LET q == CHOOSE x \in later : \A y \in later : x <= y
              m == DiffSplitMatchAt(s, q)
          IN <<SubSeq(s, p, q - 1), m.g1, m.g2>> \o SplitFrom(s, q)

\* stagedDiff.split(diffSplitRegex)
SplitByDiffs(s) == SplitFrom(s, 1)

\* diffSplitRegex.exec(fileDiff): the leftmost match
DiffSplitExec(s) ==
  LET at == {p \in 1..Len(s) : DiffSplitMatchAt(s, p).ok}
  IN IF at = {} THEN NoMatch
     ELSE DiffSplitMatchAt(s, CHOOSE p \in at : \A q \in at : p <= q)

\* vscode.workspace.workspaceFolders?.[0].uri.fsPath
WorkspacePath == "/ws"

\* path.join(folder, filePath) for a relative path without "." or ".." parts
PathJoin(folder, filePath) == folder \o "/" \o filePath

\* the change type with the "deleted file mode" marker forgotten
getFileChangeTypeWithoutDeleted(diff) ==
  IF Includes(diff, "new file mode") THEN Untracked ELSE ModifiedFile

getFileChangeType(diff) ==
  IF Includes(diff, "new file mode") THEN Untracked
  ELSE IF Includes(diff, "deleted file mode") THEN Deleted
  ELSE ModifiedFile

\* the loop "for (const fileDiff of fileDiffs)"
RECURSIVE ParsePieces(_)
ParsePieces(fileDiffs) ==
  IF Len(fileDiffs) = 0 THEN <<>>
  ELSE LET piece == Head(fileDiffs)
           match == DiffSplitExec(piece)
       IN (IF match.ok
           THEN <<parseDiff(piece, PathJoin(WorkspacePath, match.g2),
                            getFileChangeType(piece))>>
           ELSE <<>>) \o ParsePieces(Tail(fileDiffs))

parseStagedDiffs(stagedDiff) ==
  IF stagedDiff = "" THEN <<>>
  ELSE ParsePieces(SelectSeq(SplitByDiffs(stagedDiff),
                             LAMBDA str : Trim(str) # ""))

(***************************************************************************)
(* The staged diffs: at most MaxFiles file diffs one after the other, or a *)
(* text of white space.                                                    *)
(***************************************************************************)
MaxFiles == 2

\* a new empty file: no hunk
EmptyNewFileDiff == "diff --git a/e b/e\nnew file mode 100644\nindex 0..e69\n"

\* a modified file whose lines quote the header of a file diff
QuotingDiff ==
  "diff --git a/q b/q\nindex 7a..8b\n--- a/q\n+++ b/q\n@@ -3,2 +3,2 @@\n diff --git a/x b/x\n-diff --git a/x b/x\n+diff --git a/x b/x\n"

\* a binary file in the format of git diff --binary
GitBinaryPatchDiff ==
  "diff --git a/j.bin b/j.bin\nindex 9c..0d 100644\nGIT binary patch\nliteral 3\nKcmZQ\n"

\* a modified file z in a directory named "lib b"
SpacedPathDiff ==
  "diff --git a/lib b/z b/lib b/z\nindex 2e..3f\n--- a/lib b/z\n+++ b/lib b/z\n@@ -1 +1 @@\n-old\n+new\n"

\* the modified file f with lines that quote the mode and binary markers
MarkerBodyDiff ==
  "diff --git a/f b/f\nindex 1a..2b\n--- a/f\n+++ b/f\n@@ -10,2 +10,2 @@\n-Binary files differ\n+git prints new file mode\n ctx2\n"

FileDiffTexts ==
  {TextDiff, NewFileDiff, DeletedFileDiff, BinaryDiff, EmptyNewFileDiff,
   QuotingDiff, GitBinaryPatchDiff, SpacedPathDiff, MarkerBodyDiff}

BlankTexts == {"", "\n", " \n\t\n"}

RECURSIVE Concat(_)
Concat(texts) == IF Len(texts) = 0 THEN "" ELSE Head(texts) \o Concat(Tail(texts))

StagedDiffTexts ==
  {Concat(texts) : texts \in SeqsUpTo(FileDiffTexts, MaxFiles)} \cup BlankTexts

VARIABLES diff, patterns, pc, filteredPatch, fileDiff,
          workingTreeChanges, workspaceFolder, cur, stagePc, index, gitCalls,
          stagedDiff, diffs, parsePc,
          runPc, runCur, runProcessed, runEvents,
          commitPanel, panels, shows, panelMessage, handlers, commits, resets,
          rendered, now, tempFiles, runPatch,
          genEnv, genPc, genCalls, genMessage,
          earlier

filterVars == <<diff, patterns, pc, filteredPatch, fileDiff, rendered, earlier>>

\* the earlier createFilteredPatch has not been run
NotRun == [done |-> FALSE, out |-> ""]

stageVars == <<workingTreeChanges, workspaceFolder, cur, stagePc, index, gitCalls>>

parseVars == <<stagedDiff, diffs, parsePc>>

\* a call of generateCommitMessage: genEnv is what its collaborators will
\* answer, genPc the await it is at, genCalls the provider calls it has
\* made, genMessage the message it returns
genVars == <<genEnv, genPc, genCalls, genMessage>>

\* no call of generateCommitMessage
NoGenEnv ==
  [diff |-> "", lm |-> "none", fragments |-> <<>>, apiKey |-> "",
   content |-> ""]

GenIdle ==
  /\ genEnv = NoGenEnv
  /\ genPc = "idle"
  /\ genCalls = <<>>
  /\ genMessage = ""

\* the temporary patch files.  Their names are compared for equality only,
\* so numbers stand for them: tempFiles holds the names that exist, now is
\* the name Date.now() gave to the last patch file while that file exists
\* (0 otherwise) and runPatch[r] is the tempPatchPath of run r
tempVars == <<now, tempFiles, runPatch>>

flowVars == <<runPc, runCur, runProcessed, runEvents, now, tempFiles, runPatch>>

panelVars == <<commitPanel, panels, shows, panelMessage, handlers, commits, resets>>

vars == <<diff, patterns, pc, filteredPatch, fileDiff,
          workingTreeChanges, workspaceFolder, cur, stagePc, index, gitCalls,
          stagedDiff, diffs, parsePc,
          runPc, runCur, runProcessed, runEvents,
          commitPanel, panels, shows, panelMessage, handlers, commits, resets,
          rendered, now, tempFiles, runPatch,
          genEnv, genPc, genCalls, genMessage,
          earlier>>

\* the stage command is invoked at most MaxRuns times
MaxRuns == 2

Runs == 1..MaxRuns

\* let commitPanel: vscode.WebviewPanel | undefined
NoPanel == 0

\* the stage command has not been invoked
FlowIdle ==
  /\ runPc = [r \in Runs |-> "idle"]
  /\ runCur = [r \in Runs |-> 1]
  /\ runProcessed = [r \in Runs |-> {}]
  /\ runEvents = [r \in Runs |-> {}]
  /\ now = 0
  /\ tempFiles = {}
  /\ runPatch = [r \in Runs |-> 0]

\* no review panel has been shown
PanelIdle ==
  /\ commitPanel = NoPanel
  /\ panels = {}
  /\ shows = 0
  /\ panelMessage = ""
  /\ handlers = <<>>
  /\ commits = <<>>
  /\ resets = <<>>

\* no staging run: the state of the staging variables under Spec
StageIdle ==
  /\ workingTreeChanges = <<>>
  /\ workspaceFolder = TRUE
  /\ cur = 1
  /\ stagePc = "idle"
  /\ index = <<>>
  /\ gitCalls = <<>>

\* no call of parseStagedDiffs: the state of its variables under Spec
ParseIdle ==
  /\ stagedDiff = ""
  /\ diffs = <<>>
  /\ parsePc = "idle"

Init ==
  /\ diff \in DiffTexts
  /\ patterns \in RuleSets
  /\ pc = "start"
  /\ filteredPatch = ""
  /\ fileDiff = NoFileDiff
  /\ rendered = <<>>
  /\ earlier = NotRun
  /\ StageIdle
  /\ ParseIdle
  /\ GenIdle
  /\ FlowIdle
  /\ PanelIdle

\* const filteredPatch = createFilteredPatch(diff, uri.fsPath)
CreateFilteredPatch ==
  /\ pc = "start"
  /\ filteredPatch' = createFilteredPatch(diff, patterns)
  /\ pc' = "filtered"
  /\ UNCHANGED <<diff, patterns, fileDiff, rendered, earlier>>
  /\ UNCHANGED stageVars
  /\ UNCHANGED parseVars
  /\ UNCHANGED genVars
  /\ UNCHANGED flowVars
  /\ UNCHANGED panelVars

\* parseDiff applied to the filtered patch
ParseFiltered ==
  /\ pc = "filtered"
  /\ fileDiff' = parseDiff(filteredPatch, "f", ModifiedFile)
  /\ pc' = "parsed"
  /\ UNCHANGED <<diff, patterns, filteredPatch, rendered, earlier>>
  /\ UNCHANGED stageVars
  /\ UNCHANGED parseVars
  /\ UNCHANGED genVars
  /\ UNCHANGED flowVars
  /\ UNCHANGED panelVars

\* const prefix = line.type === "added" ? "+" : line.type === "removed" ? "-" : " "
LinePrefix(line) ==
  IF line.type = "added" THEN "+"
  ELSE IF line.type = "removed" THEN "-"
  ELSE " "

\* the text of the line-content span of an entry, before escapeHtml:
\* ${prefix}${escapeHtml(line.content)}
LineContentText(line) == LinePrefix(line) \o line.content

\* generateDiffHtml: per hunk, the texts of its line-content spans
generateDiffHtml(file) ==
  [k \in 1..Len(file.hunks) |->
     [i \in 1..Len(file.hunks[k].lines) |->
        LineContentText(file.hunks[k].lines[i])]]

\* the structured diff is rendered for the review panel
RenderDiff ==
  /\ pc = "parsed"
  /\ rendered' = generateDiffHtml(fileDiff)
  /\ pc' = "rendered"
  /\ UNCHANGED <<diff, patterns, filteredPatch, fileDiff, earlier>>
  /\ UNCHANGED stageVars
  /\ UNCHANGED parseVars
  /\ UNCHANGED genVars
  /\ UNCHANGED flowVars
  /\ UNCHANGED panelVars

Next == CreateFilteredPatch \/ ParseFiltered \/ RenderDiff

(***************************************************************************)
(* The two versions of the filter run on one diff: the later one with the  *)
(* single rule of the console statements.                                  *)
(***************************************************************************)
VersionHeaderLines == {"@@ -10,1 +10,2 @@ fn()"}

VersionBodyLines ==
  {" ctx1", "+console.log('x')", "+  console.error(e)", "+\tconsole.warn('w') ",
   "+keep() // console.log(", "+console.info('i')", "-console.log('old')",
   "+console.log", "+ console .log("}

VersionDiffTexts ==
  {Join(<<h>> \o body) :
     h \in VersionHeaderLines,
     body \in SeqsUpTo(VersionBodyLines, MaxLines - 1)}

InitVersions ==
  /\ diff \in VersionDiffTexts
  /\ patterns = <<ConsolePattern>>
  /\ pc = "start"
  /\ filteredPatch = ""
  /\ fileDiff = NoFileDiff
  /\ rendered = <<>>
  /\ earlier = NotRun
  /\ StageIdle
  /\ ParseIdle
  /\ GenIdle
  /\ FlowIdle
  /\ PanelIdle

\* the earlier createFilteredPatch(diff, uri.fsPath)
CreateFilteredPatchEarlier ==
  /\ ~earlier.done
  /\ earlier' = [done |-> TRUE, out |-> createFilteredPatchEarlier(diff)]
  /\ UNCHANGED <<diff, patterns, pc, filteredPatch, fileDiff, rendered>>
  /\ UNCHANGED stageVars
  /\ UNCHANGED parseVars
  /\ UNCHANGED genVars
  /\ UNCHANGED flowVars
  /\ UNCHANGED panelVars

NextVersions == CreateFilteredPatch \/ CreateFilteredPatchEarlier

SpecVersions == InitVersions /\ [][NextVersions]_vars

Spec == Init /\ [][Next]_vars

(***************************************************************************)
(* stageFilteredChanges: one action per iteration of the loop over the     *)
(* working-tree changes.  index[i] is what the index holds of change i:    *)
(* the added lines that were staged.                                       *)
(***************************************************************************)
\* the added lines git stages from a diff or a patch: the "+" lines of its hunks
StagedAdditions(text) ==
  LET ls == Split(text)
      hs == {i \in 1..Len(ls) : StartsWith(ls[i], "@@")}
  IN SelectSeq([i \in 1..Len(ls) |->
                  IF (\E h \in hs : h < i) /\ StartsWith(ls[i], "+")
                  THEN ls[i] ELSE "@@"],
               LAMBDA l : StartsWith(l, "+"))

\* the route test without the text-file check
StagedDirectlyByTypeOnly(change) == change.type \in {Deleted, Untracked}

\* [6, 7].includes(change.type) || !isText
StagedDirectly(change) == change.type \in {Deleted, Untracked} \/ ~change.isText

InitStage ==
  /\ workingTreeChanges \in SeqsUpTo(Changes, MaxChanges)
  /\ workspaceFolder \in BOOLEAN
  /\ cur = 1
  /\ stagePc = "staging"
  /\ index = [i \in 1..Len(workingTreeChanges) |-> <<>>]
  /\ gitCalls = <<>>
  /\ diff = ""
  /\ patterns \in StageRuleSets
  /\ pc = "idle"
  /\ filteredPatch = ""
  /\ fileDiff = NoFileDiff
  /\ rendered = <<>>
  /\ earlier = NotRun
  /\ ParseIdle
  /\ GenIdle
  /\ FlowIdle
  /\ PanelIdle

\* a loop that goes on after a rejected call
InLoopAfterRejection ==
  stagePc \in {"staging", "rejected"} /\ cur <= Len(workingTreeChanges)

InLoop == stagePc = "staging" /\ cur <= Len(workingTreeChanges)

\* "continue": no workspace folder, or an empty diff against HEAD
StageSkip ==
  /\ InLoop
  /\ \/ ~workspaceFolder
     \/ /\ ~StagedDirectly(workingTreeChanges[cur])
        /\ workingTreeChanges[cur].diff = ""
  /\ cur' = cur + 1
  /\ UNCHANGED <<workingTreeChanges, workspaceFolder, stagePc, index, gitCalls>>
  /\ UNCHANGED filterVars
  /\ UNCHANGED parseVars
  /\ UNCHANGED genVars
  /\ UNCHANGED flowVars
  /\ UNCHANGED panelVars

\* await repo.add([uri.fsPath]); continue
StageAdd ==
  /\ InLoop /\ workspaceFolder
  /\ StagedDirectly(workingTreeChanges[cur])
  /\ gitCalls' = Append(gitCalls, [op |-> "add", change |-> cur])
  /\ index' = [index EXCEPT ![cur] = StagedAdditions(workingTreeChanges[cur].diff)]
  /\ cur' = cur + 1
  /\ UNCHANGED <<workingTreeChanges, workspaceFolder, stagePc>>
  /\ UNCHANGED filterVars
  /\ UNCHANGED parseVars
  /\ UNCHANGED genVars
  /\ UNCHANGED flowVars
  /\ UNCHANGED panelVars

\* repo.add rejects: stageFilteredChanges rejects
StageAddFail ==
  /\ InLoop /\ workspaceFolder
  /\ StagedDirectly(workingTreeChanges[cur])
  /\ gitCalls' = Append(gitCalls, [op |-> "add", change |-> cur])
  /\ stagePc' = "rejected"
  /\ UNCHANGED <<workingTreeChanges, workspaceFolder, cur, index>>
  /\ UNCHANGED filterVars
  /\ UNCHANGED parseVars
  /\ UNCHANGED genVars
  /\ UNCHANGED flowVars
  /\ UNCHANGED panelVars

\* the filtered patch is built, written and applied; git apply exits with 0
StageApply ==
  /\ InLoop /\ workspaceFolder
  /\ ~StagedDirectly(workingTreeChanges[cur])
  /\ workingTreeChanges[cur].diff # ""
  /\ ~RegExpThrows(patterns)
  /\ diff' = workingTreeChanges[cur].diff
  /\ filteredPatch' = createFilteredPatch(workingTreeChanges[cur].diff, patterns)
  /\ gitCalls' = Append(gitCalls, [op |-> "apply", change |-> cur])
  /\ index' = [index EXCEPT ![cur] = StagedAdditions(filteredPatch')]
  /\ cur' = cur + 1
  /\ UNCHANGED <<workingTreeChanges, workspaceFolder, stagePc>>
  /\ UNCHANGED <<patterns, pc, fileDiff, rendered, earlier>>
  /\ UNCHANGED parseVars
  /\ UNCHANGED genVars
  /\ UNCHANGED flowVars
  /\ UNCHANGED panelVars

\* new RegExp throws in createFilteredPatch: nothing is written or applied
\* for this change and stageFilteredChanges rejects with the SyntaxError
StageFilterThrow ==
  /\ InLoop /\ workspaceFolder
  /\ ~StagedDirectly(workingTreeChanges[cur])
  /\ workingTreeChanges[cur].diff # ""
  /\ RegExpThrows(patterns)
  /\ diff' = workingTreeChanges[cur].diff
  /\ stagePc' = "syntaxError"
  /\ UNCHANGED <<workingTreeChanges, workspaceFolder, cur, index, gitCalls>>
  /\ UNCHANGED <<patterns, pc, filteredPatch, fileDiff, rendered, earlier>>
  /\ UNCHANGED parseVars
  /\ UNCHANGED genVars
  /\ UNCHANGED flowVars
  /\ UNCHANGED panelVars

\* git apply cannot be spawned or exits with another code: the run rejects
StageApplyFail ==
  /\ InLoop /\ workspaceFolder
  /\ ~StagedDirectly(workingTreeChanges[cur])
  /\ workingTreeChanges[cur].diff # ""
  /\ ~RegExpThrows(patterns)
  /\ diff' = workingTreeChanges[cur].diff
  /\ filteredPatch' = createFilteredPatch(workingTreeChanges[cur].diff, patterns)
  /\ gitCalls' = Append(gitCalls, [op |-> "apply", change |-> cur])
  /\ stagePc' = "rejected"
  /\ UNCHANGED <<workingTreeChanges, workspaceFolder, cur, index>>
  /\ UNCHANGED <<patterns, pc, fileDiff, rendered, earlier>>
  /\ UNCHANGED parseVars
  /\ UNCHANGED genVars
  /\ UNCHANGED flowVars
  /\ UNCHANGED panelVars

\* the loop has visited every change: stageFilteredChanges resolves
StageReturn ==
  /\ stagePc = "staging" /\ cur > Len(workingTreeChanges)
  /\ stagePc' = "done"
  /\ UNCHANGED <<workingTreeChanges, workspaceFolder, cur, index, gitCalls>>
  /\ UNCHANGED filterVars
  /\ UNCHANGED parseVars
  /\ UNCHANGED genVars
  /\ UNCHANGED flowVars
  /\ UNCHANGED panelVars

NextStage ==
  \/ StageSkip
  \/ StageAdd
  \/ StageAddFail
  \/ StageApply
  \/ StageFilterThrow
  \/ StageApplyFail
  \/ StageReturn

SpecStage == InitStage /\ [][NextStage]_vars

(***************************************************************************)
(* parseStagedDiffs applied to a staged diff; the same text is handed to   *)
(* createFilteredPatch, so that both components read one input.            *)
(***************************************************************************)
InitParse ==
  /\ stagedDiff \in StagedDiffTexts
  /\ diffs = <<>>
  /\ parsePc = "start"
  /\ diff = stagedDiff
  /\ patterns \in RuleSets
  /\ pc = "start"
  /\ filteredPatch = ""
  /\ fileDiff = NoFileDiff
  /\ rendered = <<>>
  /\ earlier = NotRun
  /\ StageIdle
  /\ FlowIdle
  /\ PanelIdle
  /\ GenIdle

\* const diffs = await parseStagedDiffs(repo)
ParseStagedDiffs ==
  /\ parsePc = "start"
  /\ diffs' = parseStagedDiffs(stagedDiff)
  /\ parsePc' = "parsed"
  /\ UNCHANGED stagedDiff
  /\ UNCHANGED genVars
  /\ UNCHANGED filterVars
  /\ UNCHANGED stageVars
  /\ UNCHANGED flowVars
  /\ UNCHANGED panelVars

NextParse == ParseStagedDiffs \/ CreateFilteredPatch

SpecParse == InitParse /\ [][NextParse]_vars

(***************************************************************************)
(* The review panel.  panels is the set of webview panels that exist,      *)
(* commitPanel the shared reference (NoPanel for undefined), panelMessage  *)
(* the commit message in the panel's content.  handlers holds one record   *)
(* per webview message received, with the position of its handler;         *)
(* commits and resets list the calls of repo.commit and the spawns of      *)
(* git reset.  The git extension is taken as present: a panel is only      *)
(* shown by a run that obtained the repository from it.                    *)
(***************************************************************************)

\* showCommitPanel is reached at most MaxShows times
MaxShows == 2

\* at most MaxMessages webview messages are received
MaxMessages == 2

\* return "feat: update codebase", or the text the language model returns
GeneratedMessages == {"feat: update codebase", "fix: drop debug output"}

\* document.getElementById("commitMessage").value: the text as generated
\* or as edited in the panel
CommitTexts == GeneratedMessages \cup {"fix: edited in the panel"}

\* a showCommitPanel that creates a panel on every call
PanelExistsNever == FALSE

\* if (commitPanel)
PanelExists == commitPanel # NoPanel

\* showCommitPanel(context, commitMessage, diffs)
showCommitPanel(commitMessage) ==
  /\ shows' = shows + 1
  /\ IF PanelExists
     THEN UNCHANGED <<commitPanel, panels>>
     ELSE /\ commitPanel' = shows + 1
          /\ panels' = panels \cup {shows + 1}
  /\ panelMessage' = commitMessage

\* commitPanel?.dispose(); onDidDispose sets commitPanel = undefined
DisposeCommitPanel ==
  IF commitPanel # NoPanel
  THEN /\ panels' = panels \ {commitPanel}
       /\ commitPanel' = NoPanel
  ELSE UNCHANGED <<commitPanel, panels>>

\* a repo.commit with the text of the panel's content
CommitArgumentFromPanel(message) == panelMessage

\* repo.commit(message.commitMessage)
CommitArgument(message) == message.commitMessage

InitPanel ==
  /\ diff = ""
  /\ patterns = <<>>
  /\ pc = "idle"
  /\ filteredPatch = ""
  /\ fileDiff = NoFileDiff
  /\ rendered = <<>>
  /\ earlier = NotRun
  /\ StageIdle
  /\ ParseIdle
  /\ GenIdle
  /\ FlowIdle
  /\ PanelIdle

PanelFrame ==
  /\ UNCHANGED filterVars
  /\ UNCHANGED stageVars
  /\ UNCHANGED parseVars
  /\ UNCHANGED genVars
  /\ UNCHANGED flowVars

\* a run of the stage command reaches showCommitPanel
ShowPanel ==
  /\ shows < MaxShows
  /\ \E m \in GeneratedMessages : showCommitPanel(m)
  /\ UNCHANGED <<handlers, commits, resets>>
  /\ PanelFrame

\* the user closes the panel: onDidDispose sets commitPanel = undefined
ClosePanel ==
  /\ \E p \in panels : panels' = panels \ {p}
  /\ commitPanel' = NoPanel
  /\ UNCHANGED <<shows, panelMessage, handlers, commits, resets>>
  /\ PanelFrame

\* a handler that runs what follows its await also when the await rejects
ReachedAfterAwaitAlways(outcome) == TRUE

\* the statements after "await repo.commit(...)" and after the awaited
\* promise of git reset run when the await resolves
ReachedAfterAwait(outcome) == outcome = "resolved"

\* what follows the await: commitPanel?.dispose() and
\* showInformationMessage("Changes ... successfully!")
AfterAwait(h, outcome) ==
  IF ReachedAfterAwait(outcome)
  THEN /\ handlers' = [handlers EXCEPT ![h].pc = "done", ![h].notified = TRUE,
                                       ![h].awaited = outcome]
       /\ DisposeCommitPanel
  ELSE /\ handlers' = [handlers EXCEPT ![h].pc = "failed", ![h].awaited = outcome]
       /\ UNCHANGED <<commitPanel, panels>>

\* {command: "approve", commitMessage} arrives from the webview of a panel:
\* handleWebviewMessage calls handleApproveCommand, which calls repo.commit
ReceiveApprove ==
  /\ Len(handlers) < MaxMessages
  /\ \E p \in panels, text \in CommitTexts :
       LET message == [command |-> "approve", commitMessage |-> text]
       IN /\ handlers' = Append(handlers,
                                [command |-> "approve", commitMessage |-> text,
                                 panel |-> p, pc |-> "committing",
                                 awaited |-> "pending", notified |-> FALSE])
          /\ commits' = Append(commits,
                               [handler |-> Len(handlers) + 1,
                                message |-> CommitArgument(message)])
  /\ UNCHANGED <<commitPanel, panels, shows, panelMessage, resets>>
  /\ PanelFrame

\* repo.commit resolves: the panel is disposed
CommitResolves ==
  /\ \E h \in 1..Len(handlers) :
       /\ handlers[h].pc = "committing"
       /\ AfterAwait(h, "resolved")
  /\ UNCHANGED <<shows, panelMessage, commits, resets>>
  /\ PanelFrame

\* repo.commit rejects: the handler rejects and the panel stays
CommitRejects ==
  /\ \E h \in 1..Len(handlers) :
       /\ handlers[h].pc = "committing"
       /\ AfterAwait(h, "rejected")
  /\ UNCHANGED <<shows, panelMessage, commits, resets>>
  /\ PanelFrame

\* {command: "decline"} arrives: handleDeclineCommand spawns git reset
ReceiveDecline ==
  /\ Len(handlers) < MaxMessages
  /\ \E p \in panels :
       handlers' = Append(handlers,
                          [command |-> "decline", commitMessage |-> "",
                           panel |-> p, pc |-> "resetting",
                           awaited |-> "pending", notified |-> FALSE])
  /\ resets' = Append(resets, Len(handlers) + 1)
  /\ UNCHANGED <<commitPanel, panels, shows, panelMessage, commits>>
  /\ PanelFrame

\* git reset exits with 0: the panel is disposed
ResetExitsZero ==
  /\ \E h \in 1..Len(handlers) :
       /\ handlers[h].pc = "resetting"
       /\ AfterAwait(h, "resolved")
  /\ UNCHANGED <<shows, panelMessage, commits, resets>>
  /\ PanelFrame

\* git reset cannot be spawned or exits with another code
ResetFails ==
  /\ \E h \in 1..Len(handlers) :
       /\ handlers[h].pc = "resetting"
       /\ AfterAwait(h, "rejected")
  /\ UNCHANGED <<shows, panelMessage, commits, resets>>
  /\ PanelFrame

NextPanel ==
  \/ ShowPanel
  \/ ClosePanel
  \/ ReceiveApprove
  \/ CommitResolves
  \/ CommitRejects
  \/ ReceiveDecline
  \/ ResetExitsZero
  \/ ResetFails

SpecPanel == InitPanel /\ [][NextPanel]_vars

(***************************************************************************)
(* The stage command.  Every invocation r runs handleSmartCommit on its    *)
(* own; nothing in the command callback keeps a second invocation from     *)
(* starting while an earlier one is awaiting.  runPc[r] is the await the   *)
(* run is suspended at, runCur[r] its position in the loop of              *)
(* stageFilteredChanges, runProcessed[r] the changes its loop has passed   *)
(* and runEvents[r] what the run has done after staging.                   *)
(***************************************************************************)

FlowChanges ==
  { Change(5, TRUE, TextDiff),
    Change(5, TRUE, ""),
    Change(Untracked, TRUE, NewFileDiff) }

FlowRuleSets == {DefaultPatterns, <<ConsolePattern, UnterminatedGroup>>}

\* what repo.add of a change stages, for every change of the runs
FlowAdded == [change \in FlowChanges |-> StagedAdditions(change.diff)]

\* what git apply --cached of the filtered patch of a change stages, for
\* every change and every rule set of the runs that compiles
FlowApplied ==
  [change \in FlowChanges, rules \in {p \in FlowRuleSets : ~RegExpThrows(p)} |->
     StagedAdditions(createFilteredPatch(change.diff, rules))]

InitFlow ==
  /\ workingTreeChanges \in SeqsUpTo(FlowChanges, MaxChanges)
  /\ workspaceFolder \in BOOLEAN
  /\ cur = 1
  /\ stagePc = "idle"
  /\ index = [i \in 1..Len(workingTreeChanges) |-> <<>>]
  /\ gitCalls = <<>>
  /\ diff = ""
  /\ patterns \in FlowRuleSets
  /\ pc = "idle"
  /\ filteredPatch = ""
  /\ fileDiff = NoFileDiff
  /\ rendered = <<>>
  /\ earlier = NotRun
  /\ ParseIdle
  /\ GenIdle
  /\ FlowIdle
  /\ PanelIdle

FlowFrame ==
  /\ UNCHANGED <<workingTreeChanges, workspaceFolder, cur, stagePc, gitCalls>>
  /\ UNCHANGED filterVars
  /\ UNCHANGED parseVars
  /\ UNCHANGED genVars
  /\ UNCHANGED <<handlers, commits, resets>>

RunAt(r, at) == runPc[r] = at

RunInLoop(r) == RunAt(r, "loop") /\ runCur[r] <= Len(workingTreeChanges)

RunChange(r) == workingTreeChanges[runCur[r]]

\* the run moves to the next change of its loop
RunAdvance(r) ==
  /\ runCur' = [runCur EXCEPT ![r] = runCur[r] + 1]
  /\ runProcessed' = [runProcessed EXCEPT ![r] = runProcessed[r] \cup {runCur[r]}]

\* the command callback: getGitRepository returns the repository and
\* handleSmartCommit calls stageFilteredChanges
Invoke(r) ==
  /\ RunAt(r, "idle")
  /\ runPc' = [runPc EXCEPT ![r] = "loop"]
  /\ UNCHANGED <<runCur, runProcessed, runEvents, index>>
  /\ UNCHANGED <<commitPanel, panels, shows, panelMessage>>
  /\ FlowFrame
  /\ UNCHANGED tempVars

\* the command callback: if (!repo) return
InvokeWithoutRepository(r) ==
  /\ RunAt(r, "idle")
  /\ runPc' = [runPc EXCEPT ![r] = "returned"]
  /\ UNCHANGED <<runCur, runProcessed, runEvents, index>>
  /\ UNCHANGED <<commitPanel, panels, shows, panelMessage>>
  /\ FlowFrame
  /\ UNCHANGED tempVars

\* "continue": no workspace folder, or an empty diff against HEAD
RunSkip(r) ==
  /\ RunInLoop(r)
  /\ \/ ~workspaceFolder
     \/ /\ ~StagedDirectly(RunChange(r))
        /\ RunChange(r).diff = ""
  /\ RunAdvance(r)
  /\ UNCHANGED <<runPc, runEvents, index>>
  /\ UNCHANGED <<commitPanel, panels, shows, panelMessage>>
  /\ FlowFrame
  /\ UNCHANGED tempVars

\* repo.add([uri.fsPath]) is called and awaited
RunAddCalled(r) ==
  /\ RunInLoop(r) /\ workspaceFolder
  /\ StagedDirectly(RunChange(r))
  /\ runPc' = [runPc EXCEPT ![r] = "adding"]
  /\ UNCHANGED <<runCur, runProcessed, runEvents, index>>
  /\ UNCHANGED <<commitPanel, panels, shows, panelMessage>>
  /\ FlowFrame
  /\ UNCHANGED tempVars

\* repo.add resolves
RunAddResolves(r) ==
  /\ RunAt(r, "adding")
  /\ index' = [index EXCEPT ![runCur[r]] = FlowAdded[RunChange(r)]]
  /\ runPc' = [runPc EXCEPT ![r] = "loop"]
  /\ RunAdvance(r)
  /\ UNCHANGED runEvents
  /\ UNCHANGED <<commitPanel, panels, shows, panelMessage>>
  /\ FlowFrame
  /\ UNCHANGED tempVars

\* repo.add rejects: the run ends in the catch of the command callback
RunAddRejects(r) ==
  /\ RunAt(r, "adding")
  /\ runPc' = [runPc EXCEPT ![r] = "failed"]
  /\ UNCHANGED <<runCur, runProcessed, runEvents, index>>
  /\ UNCHANGED <<commitPanel, panels, shows, panelMessage>>
  /\ FlowFrame
  /\ UNCHANGED tempVars

\* Date.now() in `.temp-${Date.now()}.patch`: the millisecond of the last
\* patch file name, or a later one, which gives a name not in use
TempPatchTimes ==
  {t \in 1..(Cardinality(tempFiles) + 1) :
     \/ t = now
     \/ t \notin tempFiles /\ \A u \in 1..(t - 1) : u \in tempFiles}

\* the file at tempPatchPath is there: fs.delete resolves
TempPatchExists(r) == runPatch[r] \in tempFiles

\* finally: await vscode.workspace.fs.delete(vscode.Uri.file(tempPatchPath));
\* tempPatchPath goes out of scope
DeleteTempPatch(r) ==
  /\ tempFiles' = tempFiles \ {runPatch[r]}
  /\ runPatch' = [runPatch EXCEPT ![r] = 0]
  /\ now' = IF now = runPatch[r] THEN 0 ELSE now

\* the filtered patch is built and written and git apply --cached is spawned
RunApplySpawned(r) ==
  /\ RunInLoop(r) /\ workspaceFolder
  /\ ~StagedDirectly(RunChange(r))
  /\ RunChange(r).diff # ""
  /\ ~RegExpThrows(patterns)
  /\ \E t \in TempPatchTimes :
       /\ now' = t
       /\ tempFiles' = tempFiles \cup {t}
       /\ runPatch' = [runPatch EXCEPT ![r] = t]
  /\ runPc' = [runPc EXCEPT ![r] = "applying"]
  /\ UNCHANGED <<runCur, runProcessed, runEvents, index>>
  /\ UNCHANGED <<commitPanel, panels, shows, panelMessage>>
  /\ FlowFrame

\* new RegExp throws in createFilteredPatch: the run ends in the catch
RunFilterThrows(r) ==
  /\ RunInLoop(r) /\ workspaceFolder
  /\ ~StagedDirectly(RunChange(r))
  /\ RunChange(r).diff # ""
  /\ RegExpThrows(patterns)
  /\ runPc' = [runPc EXCEPT ![r] = "failed"]
  /\ UNCHANGED <<runCur, runProcessed, runEvents, index>>
  /\ UNCHANGED <<commitPanel, panels, shows, panelMessage>>
  /\ FlowFrame
  /\ UNCHANGED tempVars

\* git apply exits with 0
RunApplyExitsZero(r) ==
  /\ RunAt(r, "applying")
  /\ TempPatchExists(r)
  /\ DeleteTempPatch(r)
  /\ index' = [index EXCEPT ![runCur[r]] = FlowApplied[RunChange(r), patterns]]
  /\ runPc' = [runPc EXCEPT ![r] = "loop"]
  /\ RunAdvance(r)
  /\ UNCHANGED runEvents
  /\ UNCHANGED <<commitPanel, panels, shows, panelMessage>>
  /\ FlowFrame

\* git apply has ended, with 0 or not, and the patch file is no longer
\* there: fs.delete rejects in the finally block and the run ends in the
\* catch
RunDeleteRejects(r) ==
  /\ RunAt(r, "applying")
  /\ ~TempPatchExists(r)
  /\ DeleteTempPatch(r)
  /\ \/ UNCHANGED index
     \/ index' = [index EXCEPT ![runCur[r]] = FlowApplied[RunChange(r), patterns]]
  /\ runPc' = [runPc EXCEPT ![r] = "failed"]
  /\ UNCHANGED <<runCur, runProcessed, runEvents>>
  /\ UNCHANGED <<commitPanel, panels, shows, panelMessage>>
  /\ FlowFrame

\* git apply cannot be spawned or exits with another code: the patch file
\* is deleted and the run ends in the catch
RunApplyFails(r) ==
  /\ RunAt(r, "applying")
  /\ TempPatchExists(r)
  /\ DeleteTempPatch(r)
  /\ runPc' = [runPc EXCEPT ![r] = "failed"]
  /\ UNCHANGED <<runCur, runProcessed, runEvents, index>>
  /\ UNCHANGED <<commitPanel, panels, shows, panelMessage>>
  /\ FlowFrame

\* a loop that is left before its last change
LoopExhaustedEarly(r) == TRUE

\* for (const change of changes) has no change left
LoopExhausted(r) == runCur[r] > Len(workingTreeChanges)

\* stageFilteredChanges resolves and repo.diff(true) is called
RunStaged(r) ==
  /\ RunAt(r, "loop") /\ LoopExhausted(r)
  /\ runPc' = [runPc EXCEPT ![r] = "reading"]
  /\ UNCHANGED <<runCur, runProcessed, runEvents, index>>
  /\ UNCHANGED <<commitPanel, panels, shows, panelMessage>>
  /\ FlowFrame
  /\ UNCHANGED tempVars

\* if (!stagedDiff) return
RunReadsEmpty(r) ==
  /\ RunAt(r, "reading")
  /\ runPc' = [runPc EXCEPT ![r] = "returned"]
  /\ runEvents' = [runEvents EXCEPT ![r] = runEvents[r] \cup {"readEmpty"}]
  /\ UNCHANGED <<runCur, runProcessed, index>>
  /\ UNCHANGED <<commitPanel, panels, shows, panelMessage>>
  /\ FlowFrame
  /\ UNCHANGED tempVars

\* the staged diff is not empty: parseStagedDiffs is called
RunReads(r) ==
  /\ RunAt(r, "reading")
  /\ runPc' = [runPc EXCEPT ![r] = "parsing"]
  /\ runEvents' = [runEvents EXCEPT ![r] = runEvents[r] \cup {"read"}]
  /\ UNCHANGED <<runCur, runProcessed, index>>
  /\ UNCHANGED <<commitPanel, panels, shows, panelMessage>>
  /\ FlowFrame
  /\ UNCHANGED tempVars

\* parseStagedDiffs resolves: generateCommitMessage is called
RunParses(r) ==
  /\ RunAt(r, "parsing")
  /\ runPc' = [runPc EXCEPT ![r] = "generating"]
  /\ runEvents' = [runEvents EXCEPT ![r] = runEvents[r] \cup {"parsed"}]
  /\ UNCHANGED <<runCur, runProcessed, index>>
  /\ UNCHANGED <<commitPanel, panels, shows, panelMessage>>
  /\ FlowFrame
  /\ UNCHANGED tempVars

\* generateCommitMessage resolves: showCommitPanel(context, commitMessage, diffs)
RunGenerates(r) ==
  /\ RunAt(r, "generating")
  /\ runPc' = [runPc EXCEPT ![r] = "shown"]
  /\ runEvents' = [runEvents EXCEPT ![r] = runEvents[r] \cup {"generated", "shown"}]
  /\ \E m \in GeneratedMessages : showCommitPanel(m)
  /\ UNCHANGED <<runCur, runProcessed, index>>
  /\ FlowFrame
  /\ UNCHANGED tempVars

\* generateCommitMessage throws: the run ends in the catch
RunGenerateThrows(r) ==
  /\ RunAt(r, "generating")
  /\ runPc' = [runPc EXCEPT ![r] = "failed"]
  /\ UNCHANGED <<runCur, runProcessed, runEvents, index>>
  /\ UNCHANGED <<commitPanel, panels, shows, panelMessage>>
  /\ FlowFrame
  /\ UNCHANGED tempVars

NextFlow ==
  \E r \in Runs :
    \/ Invoke(r)
    \/ InvokeWithoutRepository(r)
    \/ RunSkip(r)
    \/ RunAddCalled(r)
    \/ RunAddResolves(r)
    \/ RunAddRejects(r)
    \/ RunApplySpawned(r)
    \/ RunFilterThrows(r)
    \/ RunApplyExitsZero(r)
    \/ RunApplyFails(r)
    \/ RunDeleteRejects(r)
    \/ RunStaged(r)
    \/ RunReadsEmpty(r)
    \/ RunReads(r)
    \/ RunParses(r)
    \/ RunGenerates(r)
    \/ RunGenerateThrows(r)

SpecFlow == InitFlow /\ [][NextFlow]_vars

(***************************************************************************)
(* generateCommitMessage.  genEnv fixes what the collaborators answer:     *)
(* the staged diff, whether selectChatModels gives a model, none, or       *)
(* throws, the fragments the model streams and whether the request or the  *)
(* stream throws, the configured API key, and what the OpenAI API answers. *)
(***************************************************************************)

DefaultMessage == "feat: update codebase"

\* the grave accent of markdown code spans (U+0060), which a string of this
\* module cannot hold: # stands for it in the texts of the model
GraveAccent == "#"

\* the fragments of response.text
FragmentSeqs ==
  { <<>>, <<"">>, <<"#fix: ", "drop#">>, <<" # ", "\n">>, <<"fix: drop\n">> }

\* response.choices[0].message.content, or the request throwing (status 401
\* or another error)
OpenAIAnswers == {"", " ", "fix: drop", "throws401", "throws"}

GenEnvs ==
  [diff : {"", TextDiff},
   lm : {"none", "selectThrows", "requestThrows", "streamThrows", "answers"},
   fragments : FragmentSeqs,
   apiKey : {"", "sk-1"},
   content : OpenAIAnswers]

\* commitMessage.replace(/\x60/g, "")
RECURSIVE RemoveBackticks(_)
RemoveBackticks(s) ==
  IF Len(s) = 0 THEN ""
  ELSE (IF CharAt(s, 1) = GraveAccent THEN "" ELSE CharAt(s, 1))
         \o RemoveBackticks(Substring(s, 1))

\* a return without the fallback text
OrDefaultNever(text) == text

\* text || "feat: update codebase"
OrDefault(text) == IF text = "" THEN DefaultMessage ELSE text

\* a fallback that does not look at the API key
ApiKeyMissingNever(apiKey) == FALSE

\* if (!apiKey)
ApiKeyMissing(apiKey) == apiKey = ""

InitGenerate ==
  /\ genEnv \in GenEnvs
  /\ genPc = "start"
  /\ genCalls = <<>>
  /\ genMessage = ""
  /\ diff = ""
  /\ patterns = <<>>
  /\ pc = "idle"
  /\ filteredPatch = ""
  /\ fileDiff = NoFileDiff
  /\ rendered = <<>>
  /\ earlier = NotRun
  /\ StageIdle
  /\ ParseIdle
  /\ FlowIdle
  /\ PanelIdle

GenFrame ==
  /\ UNCHANGED genEnv
  /\ UNCHANGED filterVars
  /\ UNCHANGED stageVars
  /\ UNCHANGED parseVars
  /\ UNCHANGED flowVars
  /\ UNCHANGED panelVars

\* return message
GenReturn(message) ==
  /\ genMessage' = message
  /\ genPc' = "returned"

\* const diff = await repo.diff(true); if (!diff) return "feat: update codebase"
GenDiffEmpty ==
  /\ genPc = "start"
  /\ genEnv.diff = ""
  /\ GenReturn(DefaultMessage)
  /\ UNCHANGED genCalls
  /\ GenFrame

\* the staged diff is not empty: vscode.lm.selectChatModels is called
GenSelect ==
  /\ genPc = "start"
  /\ genEnv.diff # ""
  /\ genCalls' = Append(genCalls, "selectChatModels")
  /\ genPc' = "selecting"
  /\ UNCHANGED genMessage
  /\ GenFrame

\* selectChatModels gives a model: model.sendRequest is called
GenSendRequest ==
  /\ genPc = "selecting"
  /\ genEnv.lm \in {"requestThrows", "streamThrows", "answers"}
  /\ genCalls' = Append(genCalls, "sendRequest")
  /\ genPc' = "requesting"
  /\ UNCHANGED genMessage
  /\ GenFrame

\* the fragments are collected: the message without backticks, trimmed, is
\* returned, or the fallback text when nothing is left
GenModelAnswers ==
  /\ genPc = "requesting"
  /\ genEnv.lm = "answers"
  /\ GenReturn(OrDefault(Trim(RemoveBackticks(Concat(genEnv.fragments)))))
  /\ UNCHANGED genCalls
  /\ GenFrame

\* selectChatModels gives no model or throws, or sendRequest or the stream
\* throws (the catch logs it): the fallback starts
GenModelUnavailable ==
  /\ \/ genPc = "selecting" /\ genEnv.lm \in {"none", "selectThrows"}
     \/ genPc = "requesting" /\ genEnv.lm \in {"requestThrows", "streamThrows"}
  /\ genPc' = "fallback"
  /\ UNCHANGED <<genCalls, genMessage>>
  /\ GenFrame

\* if (!apiKey): the error message with "Set API Key" is shown and, whatever
\* the user picks, the fallback text is returned
GenNoApiKey ==
  /\ genPc = "fallback"
  /\ ApiKeyMissing(genEnv.apiKey)
  /\ GenReturn(DefaultMessage)
  /\ UNCHANGED genCalls
  /\ GenFrame

\* openai.chat.completions.create is called
GenOpenAIRequest ==
  /\ genPc = "fallback"
  /\ ~ApiKeyMissing(genEnv.apiKey)
  /\ genCalls' = Append(genCalls, "openai")
  /\ genPc' = "openai"
  /\ UNCHANGED genMessage
  /\ GenFrame

\* return response.choices[0].message.content || "feat: update codebase"
GenOpenAIAnswers ==
  /\ genPc = "openai"
  /\ genEnv.content \notin {"throws401", "throws"}
  /\ GenReturn(OrDefault(genEnv.content))
  /\ UNCHANGED genCalls
  /\ GenFrame

\* the request throws: generateCommitMessage throws "Invalid OpenAI API key"
\* or "Failed to generate commit message"
GenOpenAIThrows ==
  /\ genPc = "openai"
  /\ genEnv.content \in {"throws401", "throws"}
  /\ genPc' = "thrown"
  /\ UNCHANGED <<genCalls, genMessage>>
  /\ GenFrame

NextGenerate ==
  \/ GenDiffEmpty
  \/ GenSelect
  \/ GenSendRequest
  \/ GenModelAnswers
  \/ GenModelUnavailable
  \/ GenNoApiKey
  \/ GenOpenAIRequest
  \/ GenOpenAIAnswers
  \/ GenOpenAIThrows

SpecGenerate == InitGenerate /\ [][NextGenerate]_vars

(***************************************************************************)
(* Reading a diff text by the unified-diff grammar: the vocabulary of the  *)
(* properties below.  A hunk is a line that starts with "@@" and the lines *)
(* up to the next such line; a header "@@ -a[,b] +c[,d] @@" gives four     *)
(* integers, an omitted count being 1.                                     *)
(***************************************************************************)
InLines == Split(diff)

OutLines == Split(filteredPatch)

FilterDone == pc \in {"filtered", "parsed"}

HeaderIndexes(ls) == {i \in 1..Len(ls) : StartsWith(ls[i], "@@")}

HunkCount(ls) == Cardinality(HeaderIndexes(ls))

NthHeaderIndex(ls, k) ==
  CHOOSE i \in HeaderIndexes(ls) :
    Cardinality({j \in HeaderIndexes(ls) : j < i}) = k - 1

HunkHeader(ls, k) == ls[NthHeaderIndex(ls, k)]

HunkBody(ls, k) ==
  SubSeq(ls, NthHeaderIndex(ls, k) + 1,
         IF k < HunkCount(ls) THEN NthHeaderIndex(ls, k + 1) - 1 ELSE Len(ls))

\* the lines before the first hunk header
Preamble(ls) ==
  IF HeaderIndexes(ls) = {} THEN ls ELSE SubSeq(ls, 1, NthHeaderIndex(ls, 1) - 1)

CountPrefix(ls, p) == Len(SelectSeq(ls, LAMBDA l : StartsWith(l, p)))

CountOf(ls, line) == Len(SelectSeq(ls, LAMBDA l : l = line))

UnreadableHeader ==
  [ok |-> FALSE, oldStart |-> 0, oldCount |-> 0, newStart |-> 0, newCount |-> 0]

\* the index after an optional ",n" group at index i; n may carry a sign
SignedCountEnd(s, i) ==
  LET d == IF LitAt(s, i + 1, "-") THEN i + 2 ELSE i + 1
  IN IF LitAt(s, i, ",") /\ DigitRunEnd(s, d) > d THEN DigitRunEnd(s, d) ELSE i

\* the count written between from and to, 1 when it is omitted
CountAt(s, from, to) ==
  IF to = from THEN 1
  ELSE IF LitAt(s, from + 1, "-") THEN 0 - ParseInt(SubSeq(s, from + 2, to - 1))
  ELSE ParseInt(SubSeq(s, from + 1, to - 1))

UnifiedHeader(s) ==
  IF ~LitAt(s, 1, "@@ -") THEN UnreadableHeader
  ELSE LET e1 == DigitRunEnd(s, 5)
           c1 == SignedCountEnd(s, e1)
       IN IF e1 = 5 \/ ~LitAt(s, c1, " +") THEN UnreadableHeader
          ELSE LET a3 == c1 + 2
                   e3 == DigitRunEnd(s, a3)
                   c3 == SignedCountEnd(s, e3)
               IN IF e3 = a3 \/ ~LitAt(s, c3, " @@") THEN UnreadableHeader
                  ELSE [ok |-> TRUE,
                        oldStart |-> ParseInt(SubSeq(s, 5, e1 - 1)),
                        oldCount |-> CountAt(s, e1, c1),
                        newStart |-> ParseInt(SubSeq(s, a3, e3 - 1)),
                        newCount |-> CountAt(s, e3, c3)]

\* the body of hunk k without the empty line a final newline of the text leaves
HunkBodyLines(ls, k) ==
  LET b == HunkBody(ls, k)
  IN IF k = HunkCount(ls) /\ Len(b) > 0 /\ b[Len(b)] = ""
     THEN SubSeq(b, 1, Len(b) - 1)
     ELSE b

IsBodyLine(l) ==
  StartsWith(l, "+") \/ StartsWith(l, "-") \/ StartsWith(l, " ") \/ StartsWith(l, "\\")

\* every hunk header is readable and its counts agree with its body
HeadersAgree(ls) ==
  \A k \in 1..HunkCount(ls) :
    LET u == UnifiedHeader(HunkHeader(ls, k))
        b == HunkBodyLines(ls, k)
    IN /\ u.ok
       /\ \A i \in 1..Len(b) : IsBodyLine(b[i])
       /\ u.oldCount = CountPrefix(b, " ") + CountPrefix(b, "-")
       /\ u.newCount = CountPrefix(b, " ") + CountPrefix(b, "+")

\* the content of an added line matches at least one rule
MatchesRule(line, rules) ==
  \E r \in 1..Len(rules) : RegexTest(rules[r], Trim(Substring(line, 1)))

\* C1: when the input's hunk headers agree with their bodies, every hunk of
\* the filter's output has a header whose newCount is the number of added
\* lines plus the number of context lines of that hunk's output body.
C1_HeaderCountInvariant ==
  (FilterDone /\ HeadersAgree(InLines)) =>
    \A k \in 1..HunkCount(OutLines) :
      LET u == UnifiedHeader(HunkHeader(OutLines, k))
          b == HunkBody(OutLines, k)
      IN u.ok /\ u.newCount = CountPrefix(b, "+") + CountPrefix(b, " ")

\* C2: with an empty rule set the filter returns its input text unchanged.
C2_NoRulesIdentity == (FilterDone /\ patterns = <<>>) => filteredPatch = diff

\* the "+" lines of the hunk bodies of a text
AddedBodyLines(ls) ==
  SelectSeq([i \in 1..Len(ls) |->
               IF (\E h \in HeaderIndexes(ls) : h < i) /\ StartsWith(ls[i], "+")
               THEN ls[i] ELSE ""],
            LAMBDA l : l # "")

\* C3: the output has at most as many "+" body lines as the input, and as
\* many exactly when no added line of the input matches a rule.
C3_MonotonicReduction ==
  FilterDone =>
    LET in == AddedBodyLines(InLines)
        out == AddedBodyLines(OutLines)
    IN /\ Len(out) <= Len(in)
       /\ (Len(out) = Len(in)) <=>
            ~\E i \in 1..Len(in) : MatchesRule(in[i], patterns)

HunkOf(header, lines) == [header |-> header, lines |-> lines]

EntriesOfType(hunk, types) ==
  Len(SelectSeq(hunk.lines, LAMBDA e : e.type \in types))

\* C4: when the input's hunk headers agree with their bodies, every hunk
\* parseDiff returns for the filter's output has as many added and context
\* entries as the newCount of its header.
C4_RoundTripStructuring ==
  (pc = "parsed" /\ HeadersAgree(InLines)) =>
    \A k \in 1..Len(fileDiff.hunks) :
      LET u == UnifiedHeader(fileDiff.hunks[k].header)
      IN u.ok /\ EntriesOfType(fileDiff.hunks[k], {"added", "context"}) = u.newCount

\* a line of the input that the output has fewer times than the input
LineDropped(l) == CountOf(OutLines, l) < CountOf(InLines, l)

\* the number of added lines of hunk k of the input that were dropped
DroppedInHunk(k) ==
  Len(SelectSeq(HunkBody(InLines, k),
                LAMBDA l : StartsWith(l, "+") /\ LineDropped(l)))

\* C5: the header written for every hunk keeps oldStart, oldCount and
\* newStart and has the input's newCount minus the number of added lines
\* dropped in that hunk.
C5_HunkFinalization ==
  FilterDone =>
    /\ HunkCount(OutLines) = HunkCount(InLines)
    /\ \A k \in 1..HunkCount(InLines) :
         LET i == UnifiedHeader(HunkHeader(InLines, k))
             o == UnifiedHeader(HunkHeader(OutLines, k))
         IN i.ok =>
              /\ o.ok
              /\ o.oldStart = i.oldStart
              /\ o.oldCount = i.oldCount
              /\ o.newStart = i.newStart
              /\ o.newCount = i.newCount - DroppedInHunk(k)

Reverse(seq) == [i \in 1..Len(seq) |-> seq[Len(seq) + 1 - i]]

\* C6: an added line of a hunk is absent from the output exactly when its
\* trimmed content matches a rule, and the order of the rules does not
\* change the output.
C6_ExclusionSemantics ==
  FilterDone =>
    /\ \A i \in 1..Len(AddedBodyLines(InLines)) :
         LET line == AddedBodyLines(InLines)[i]
         IN CountOf(OutLines, line) =
              IF MatchesRule(line, patterns)
              THEN CountOf(InLines, line) - CountOf(AddedBodyLines(InLines), line)
              ELSE CountOf(InLines, line)
    /\ createFilteredPatch(diff, Reverse(patterns)) = filteredPatch

IsRemovedOrContext(l) == StartsWith(l, "-") \/ StartsWith(l, " ")

\* C7: the removed and context lines of every hunk are in the output
\* unchanged, in the same hunk and in the same order.
C7_RemovedAndContextKept ==
  FilterDone =>
    /\ HunkCount(OutLines) = HunkCount(InLines)
    /\ \A k \in 1..HunkCount(InLines) :
         SelectSeq(HunkBody(OutLines, k), IsRemovedOrContext)
           = SelectSeq(HunkBody(InLines, k), IsRemovedOrContext)

\* a line with one of the four file-header prefixes
HasFileHeaderPrefix(l) ==
  \/ StartsWith(l, "diff ")
  \/ StartsWith(l, "index ")
  \/ StartsWith(l, "--- ")
  \/ StartsWith(l, "+++ ")

\* the file-header lines that precede the hunks of a text
FileHeadersOf(ls) == SelectSeq(Preamble(ls), HasFileHeaderPrefix)

\* C8: the file-header lines that precede the hunks of the input are the
\* first lines of the output, verbatim and in their order, before every
\* hunk header of the output, whatever the rule set.
C8_FileHeadersKept ==
  FilterDone =>
    LET out == OutLines
        headers == FileHeadersOf(InLines)
    IN /\ Len(out) >= Len(headers)
       /\ SubSeq(out, 1, Len(headers)) = headers
       /\ \A h \in HeaderIndexes(out) : h > Len(headers)

\* C8 witness: a filtered diff with a preamble of file headers and other
\* lines, a hunk, and an added line that a rule removed
C8_Witness ==
  /\ pc = "filtered"
  /\ Len(FileHeadersOf(InLines)) >= 4
  /\ Len(Preamble(InLines)) > Len(FileHeadersOf(InLines))
  /\ HunkCount(InLines) >= 1
  /\ Len(AddedBodyLines(OutLines)) < Len(AddedBodyLines(InLines))

\* C9: every hunk header of the input has its header in the output, in the
\* same order, and the header of a hunk whose added lines were all filtered
\* out has its newCount reduced by their number.
C9_NoHunkDropped ==
  FilterDone =>
    /\ HunkCount(OutLines) = HunkCount(InLines)
    /\ \A k \in 1..HunkCount(InLines) :
         LET i == UnifiedHeader(HunkHeader(InLines, k))
             o == UnifiedHeader(HunkHeader(OutLines, k))
             added == CountPrefix(HunkBody(InLines, k), "+")
         IN i.ok =>
              /\ o.ok
              /\ o.oldStart = i.oldStart
              /\ o.newStart = i.newStart
              /\ (added > 0 /\ DroppedInHunk(k) = added)
                   => o.newCount = i.newCount - added

\* the content begins with one of the three console calls
IsConsoleCall(content) ==
  \/ StartsWith(content, "console.log(")
  \/ StartsWith(content, "console.error(")
  \/ StartsWith(content, "console.warn(")

\* C10: once the staging run has processed the changes with the default
\* patterns, no staged added line has a trimmed content that begins with
\* console.log(, console.error( or console.warn(.
C10_NoDebugStatementStaged ==
  (stagePc = "done" /\ patterns = DefaultPatterns) =>
    \A c \in 1..Len(index) :
      \A l \in 1..Len(index[c]) :
        ~IsConsoleCall(Trim(Substring(index[c][l], 1)))

\* the entries of a hunk that take a line of the new file
NumberedEntries(hunk) ==
  SelectSeq(hunk.lines, LAMBDA e : e.type \in {"added", "context"})

\* C11: in every hunk parseDiff returns, each added or context entry has a
\* lineNumber greater than the added or context entry before it, and every
\* removed entry that has an entry after it has that entry's lineNumber.
C11_LineNumberingLaw ==
  pc = "parsed" =>
    \A k \in 1..Len(fileDiff.hunks) :
      LET ls == fileDiff.hunks[k].lines
          ac == NumberedEntries(fileDiff.hunks[k])
      IN /\ \A i \in 1..(Len(ac) - 1) : ac[i].lineNumber < ac[i + 1].lineNumber
         /\ \A i \in 1..(Len(ls) - 1) :
              ls[i].type = "removed" => ls[i].lineNumber = ls[i + 1].lineNumber

\* C11 witness: a parsed hunk with a removed entry in front of an added one
\* and a context entry after them
C11_Witness ==
  /\ pc = "parsed"
  /\ \E k \in 1..Len(fileDiff.hunks) :
       LET ls == fileDiff.hunks[k].lines
       IN /\ Len(NumberedEntries(fileDiff.hunks[k])) >= 2
          /\ \E i \in 1..(Len(ls) - 1) :
               ls[i].type = "removed" /\ ls[i + 1].type = "added"

(***************************************************************************)
(* Reading a staged diff line by line: the lines that open a file diff.    *)
(***************************************************************************)
\* a line of the form "diff --git a/<path> b/<path>"
IsDiffGitLine(line) ==
  StartsWith(line, "diff --git a/") /\ Includes(Substring(line, 13), " b/")

DiffGitLines(text) == SelectSeq(Split(text), IsDiffGitLine)

\* the path after the first " b/" of such a line
PathOfDiffGitLine(line) ==
  LET bs == {q \in 14..Len(line) : LitAt(line, q, " b/")}
      b == CHOOSE q \in bs : \A r \in bs : q <= r
  IN SubSeq(line, b + 3, Len(line))

\* the lines of the k-th file diff: from its "diff --git" line up to the next
FileSegmentLines(text, k) ==
  LET ls == Split(text)
      at == {i \in 1..Len(ls) : IsDiffGitLine(ls[i])}
      nth(n) == CHOOSE i \in at : Cardinality({j \in at : j < i}) = n - 1
  IN SubSeq(ls, nth(k),
            IF k < Cardinality(at) THEN nth(k + 1) - 1 ELSE Len(ls))

\* C12: parseStagedDiffs returns one record for every line of the staged
\* diff that begins "diff --git a/<path> b/<path>", in the order of those
\* lines and with that line's b/ path; a body line that holds such a text
\* after its prefix opens no record.
C12_FileSegmentation ==
  parsePc = "parsed" =>
    LET heads == DiffGitLines(stagedDiff)
    IN /\ Len(diffs) = Len(heads)
       /\ \A k \in 1..Len(heads) :
            diffs[k].filePath = PathJoin(WorkspacePath, PathOfDiffGitLine(heads[k]))

\* C12 witness: two file diffs, one with body lines that quote a file header
C12_Witness ==
  /\ parsePc = "parsed"
  /\ Len(diffs) = 2
  /\ \E l \in 1..Len(Split(stagedDiff)) :
       Split(stagedDiff)[l] = "+diff --git a/x b/x"
  /\ diffs[1].filePath # diffs[2].filePath

\* some line of the k-th file diff holds the text marker
SegmentContains(text, k, marker) ==
  LET ls == FileSegmentLines(text, k)
  IN \E l \in 1..Len(ls) : Includes(ls[l], marker)

\* the k-th file diff has a line that starts with "@@"
SegmentHasHunk(text, k) ==
  LET ls == FileSegmentLines(text, k)
  IN \E l \in 1..Len(ls) : StartsWith(ls[l], "@@")

\* C13: the record of a file diff has change type 7 (added) when the file
\* diff contains "new file mode", else 6 (deleted) when it contains
\* "deleted file mode", else 1 (modified); a file diff with "new file mode
\* 100644" and no "@@" line gives type 7 and no hunk.
C13_ChangeTypeClassification ==
  parsePc = "parsed" =>
    /\ Len(diffs) = Len(DiffGitLines(stagedDiff))
    /\ \A k \in 1..Len(diffs) :
         /\ diffs[k].type =
              IF SegmentContains(stagedDiff, k, "new file mode") THEN 7
              ELSE IF SegmentContains(stagedDiff, k, "deleted file mode") THEN 6
              ELSE 1
         /\ (/\ SegmentContains(stagedDiff, k, "new file mode 100644")
             /\ ~SegmentHasHunk(stagedDiff, k))
              => diffs[k].type = 7 /\ diffs[k].hunks = <<>>

\* C13 witness: the staged diff of a new empty file and of a deleted file
C13_Witness ==
  /\ parsePc = "parsed"
  /\ Len(diffs) = 2
  /\ SegmentContains(stagedDiff, 1, "new file mode 100644")
  /\ ~SegmentHasHunk(stagedDiff, 1)
  /\ diffs[1].type = 7 /\ diffs[1].hunks = <<>> /\ ~diffs[1].isBinary
  /\ SegmentContains(stagedDiff, 2, "deleted file mode")
  /\ diffs[2].type = 6

\* C14: the record of a file diff that contains "Binary files" or
\* "GIT binary patch" has isBinary TRUE and no hunk, whatever lines the file
\* diff holds; parseDiff gives the same result for the text of that file
\* diff alone and for that text followed by a hunk.
C14_BinaryRouting ==
  parsePc = "parsed" =>
    /\ Len(diffs) = Len(DiffGitLines(stagedDiff))
    /\ \A k \in 1..Len(diffs) :
         (\/ SegmentContains(stagedDiff, k, "Binary files")
          \/ SegmentContains(stagedDiff, k, "GIT binary patch"))
           => /\ diffs[k].isBinary
              /\ diffs[k].hunks = <<>>
              /\ parseDiff(Join(FileSegmentLines(stagedDiff, k))
                             \o "\n@@ -1,1 +1,2 @@\n ctx1\n+keep()",
                           diffs[k].filePath, diffs[k].type) = diffs[k]

\* C14 witness: the staged diff of a binary file in each of the two formats
C14_Witness ==
  /\ parsePc = "parsed"
  /\ Len(diffs) = 2
  /\ SegmentContains(stagedDiff, 1, "GIT binary patch")
  /\ SegmentContains(stagedDiff, 2, "Binary files")
  /\ diffs[1].isBinary /\ diffs[2].isBinary

\* C15: the filter's header pattern and the structurer's header pattern
\* accept the same hunk-header lines and read the same newStart, and a header
\* that the unified-diff grammar reads (an omitted count being 1) is accepted
\* by both and comes out of the filter with its newCount reduced by the
\* added lines dropped in its hunk.
C15_SharedHeaderCodec ==
  FilterDone =>
    \A k \in 1..HunkCount(InLines) :
      LET h == HunkHeader(InLines, k)
          f == FilterHeaderMatch(h)
          p == ParseHeaderMatch(h)
          u == UnifiedHeader(h)
          o == UnifiedHeader(HunkHeader(OutLines, k))
      IN /\ f.ok <=> p.ok
         /\ (f.ok /\ p.ok) => ParseInt(f.g3) = ParseInt(p.g1)
         /\ u.ok => /\ f.ok /\ p.ok
                    /\ o.ok /\ o.newCount = u.newCount - DroppedInHunk(k)

\* a text that is empty or holds white space only
IsBlank(text) == Trim(text) = ""

C17_RuleErrorUpFront == RegExpThrows(patterns) => gitCalls = <<>>

\* C18: a text without a hunk-header line comes out of the filter with
\* every one of its lines, in the original order.
C18_NoHunkPassThrough ==
  (FilterDone /\ HunkCount(InLines) = 0) => OutLines = InLines

\* C19: a line that starts with "@@" and that the filter's header pattern
\* does not match is in the output unmodified, as the header of its hunk.
C19_UnrecognizedHeaderKept ==
  pc = "filtered" =>
    LET in == InLines
        out == OutLines
    IN /\ HunkCount(out) = HunkCount(in)
       /\ \A k \in 1..HunkCount(in) :
            ~FilterHeaderMatch(HunkHeader(in, k)).ok
              => HunkHeader(out, k) = HunkHeader(in, k)

\* C19 witness: a hunk whose header the pattern does not match lost an
\* added line to a rule, next to a hunk whose header was rewritten
C19_Witness ==
  /\ pc = "filtered"
  /\ \E k \in 1..HunkCount(InLines) :
       /\ ~FilterHeaderMatch(HunkHeader(InLines, k)).ok
       /\ DroppedInHunk(k) > 0
  /\ \E k \in 1..HunkCount(InLines) :
       /\ FilterHeaderMatch(HunkHeader(InLines, k)).ok
       /\ HunkHeader(OutLines, k) # HunkHeader(InLines, k)

IsNoNewlineMarker(l) == StartsWith(l, "\\")

WithoutMarkers(ls) == SelectSeq(ls, LAMBDA l : ~IsNoNewlineMarker(l))

\* C20: the lines that start with "\" are in the output, in their hunk and
\* in their order, whatever the rules, and the rest of the output is what
\* the filter returns for the input without those lines: they change
\* neither what is dropped nor the rewritten counts.
C20_NoNewlineMarkersKept ==
  pc = "filtered" =>
    LET in == InLines
        out == OutLines
    IN (\E l \in 1..Len(in) : IsNoNewlineMarker(in[l])) =>
         /\ HunkCount(out) = HunkCount(in)
         /\ \A k \in 1..HunkCount(in) :
              SelectSeq(HunkBody(out, k), IsNoNewlineMarker)
                = SelectSeq(HunkBody(in, k), IsNoNewlineMarker)
         /\ WithoutMarkers(out)
              = FilteredLines(WithoutMarkers(in), patterns)

\* C20 witness: a hunk with a marker line and an added line that a rule
\* dropped, filtered under a rule that the text of the marker matches
C20_Witness ==
  /\ pc = "filtered"
  /\ \E r \in 1..Len(patterns) : patterns[r] = NoNewlinePattern
  /\ \E k \in 1..HunkCount(InLines) :
       /\ FilterHeaderMatch(HunkHeader(InLines, k)).ok
       /\ DroppedInHunk(k) > 0
       /\ \E l \in 1..Len(HunkBody(InLines, k)) :
            /\ IsNoNewlineMarker(HunkBody(InLines, k)[l])
            /\ MatchesRule(HunkBody(InLines, k)[l], patterns)

\* the number of added lines of hunk k of in that out has fewer times
DroppedFrom(in, out, k) ==
  Len(SelectSeq(HunkBody(in, k),
                LAMBDA l : StartsWith(l, "+") /\ CountOf(out, l) < CountOf(in, l)))

\* C24: the header written for a hunk whose header the filter reads has the
\* input's newCount minus the added lines dropped in that same hunk, whatever
\* was dropped in the hunks before and after it; a header the filter does
\* not read is not reduced at all.
C24_PerHunkSkipCounter ==
  pc = "filtered" =>
    LET in == InLines
        out == OutLines
    IN \A k \in 1..HunkCount(in) :
         LET f == FilterHeaderMatch(HunkHeader(in, k))
             o == UnifiedHeader(HunkHeader(out, k))
         IN IF f.ok
            THEN o.ok /\ o.newCount = ParseInt(f.g4) - DroppedFrom(in, out, k)
            ELSE HunkHeader(out, k) = HunkHeader(in, k)

\* C24 witness: two hunks with headers the filter reads; the first lost an
\* added line, the second kept its added line
C24_Witness ==
  /\ pc = "filtered"
  /\ HunkCount(InLines) = 2
  /\ FilterHeaderMatch(HunkHeader(InLines, 1)).ok
  /\ FilterHeaderMatch(HunkHeader(InLines, 2)).ok
  /\ DroppedFrom(InLines, OutLines, 1) = 1
  /\ DroppedFrom(InLines, OutLines, 2) = 0
  /\ CountPrefix(HunkBody(OutLines, 2), "+") = 1

\* the added and context entries among the first n entries of a hunk
NumberedBefore(hunk, n) ==
  Len(SelectSeq(SubSeq(hunk.lines, 1, n),
                LAMBDA e : e.type \in {"added", "context"}))

\* C25: in every hunk parseDiff returns whose header its pattern matches,
\* the lineNumber of every entry, removed ones included, is the header's
\* newStart plus the number of added and context entries before it.
C25_AbsoluteLineNumbers ==
  pc = "parsed" =>
    \A k \in 1..Len(fileDiff.hunks) :
      LET hunk == fileDiff.hunks[k]
          u == UnifiedHeader(hunk.header)
      IN ParseHeaderMatch(hunk.header).ok =>
           /\ u.ok
           /\ \A i \in 1..Len(hunk.lines) :
                hunk.lines[i].lineNumber = u.newStart + NumberedBefore(hunk, i - 1)

\* C25 witness: a parsed hunk that starts at line 10 with a context entry,
\* a removed entry and an added entry after it
C25_Witness ==
  /\ pc = "parsed"
  /\ \E k \in 1..Len(fileDiff.hunks) :
       LET hunk == fileDiff.hunks[k]
       IN /\ UnifiedHeader(hunk.header).newStart = 10
          /\ Len(hunk.lines) = 3
          /\ hunk.lines[1].type = "context"
          /\ hunk.lines[2].type = "removed"
          /\ hunk.lines[3].type = "added"
          /\ hunk.lines[3].lineNumber = 11

\* the kind of entry the first character of a body line stands for
KindOf(line) ==
  IF StartsWith(line, "+") THEN "added"
  ELSE IF StartsWith(line, "-") THEN "removed"
  ELSE "context"

C30_OneHunkPerHeader ==
  pc = "parsed" =>
    LET out == OutLines
    IN /\ Len(fileDiff.hunks) = HunkCount(out)
       /\ \A k \in 1..Len(fileDiff.hunks) :
            fileDiff.hunks[k].header = HunkHeader(out, k)

\* the path p of a line "diff --git a/p b/p" (a file that is not renamed)
NewPathOf(line) ==
  LET n == (Len(line) - 16) \div 2
  IN SubSeq(line, Len(line) - n + 1, Len(line))

\* C29: the filePath of the record of every file diff is the workspace root
\* joined with the complete new path of its "diff --git" line, also when
\* the path holds a space or the text " b/".
C29_PathExtraction ==
  parsePc = "parsed" =>
    LET heads == DiffGitLines(stagedDiff)
    IN /\ Len(diffs) = Len(heads)
       /\ \A k \in 1..Len(heads) :
            diffs[k].filePath = WorkspacePath \o "/" \o NewPathOf(heads[k])

\* the number of git calls of kind op made for the k-th change
CallsFor(k, op) ==
  Cardinality({i \in 1..Len(gitCalls) :
                 gitCalls[i].change = k /\ gitCalls[i].op = op})

\* the k-th change is one the spec stages as a whole file
WholeFile(k) ==
  \/ workingTreeChanges[k].type \in {Deleted, Untracked}
  \/ ~workingTreeChanges[k].isText

\* the route of the k-th change: whole files are never patched, other changes
\* are never added, and once the loop has passed the change it has made
\* exactly the one call of its route (none for an empty diff)
RouteTaken(k) ==
  LET passed == cur > k
  IN /\ WholeFile(k) =>
          /\ CallsFor(k, "apply") = 0
          /\ CallsFor(k, "add") <= 1
          /\ passed => CallsFor(k, "add") = 1
     /\ ~WholeFile(k) /\ workingTreeChanges[k].diff # "" =>
          /\ CallsFor(k, "add") = 0
          /\ CallsFor(k, "apply") <= 1
          /\ passed => CallsFor(k, "apply") = 1
     /\ ~WholeFile(k) /\ workingTreeChanges[k].diff = "" =>
          /\ CallsFor(k, "add") = 0
          /\ CallsFor(k, "apply") = 0
          /\ index[k] = <<>>

Declines == {h \in 1..Len(handlers) : handlers[h].command = "decline"}

\* every repo.commit answers an "approve" message with that message's text,
\* at most once; every "decline" spawns one git reset and no commit
DecisionHonoured ==
  /\ \A i \in 1..Len(commits) :
       /\ commits[i].handler \in 1..Len(handlers)
       /\ handlers[commits[i].handler].command = "approve"
       /\ commits[i].message = handlers[commits[i].handler].commitMessage
       /\ \A j \in 1..Len(commits) :
            commits[j].handler = commits[i].handler => j = i
  /\ \A h \in Declines :
       /\ Cardinality({i \in 1..Len(resets) : resets[i] = h}) = 1
       /\ \A i \in 1..Len(commits) : commits[i].handler # h

\* the step in which the git reset of a "decline" succeeds leaves no panel
DeclineDisposes ==
  \A h \in Declines :
    handlers[h].pc = "resetting" /\ handlers'[h].pc = "done" =>
      panels' = {} /\ commitPanel' = NoPanel

\* C22: repo.commit is called only for an "approve" message and with the
\* commitMessage that message carries; a "decline" message never commits,
\* runs git reset, and the panel is disposed when the reset succeeds.
C22_ReviewDecision == [](DecisionHonoured) /\ [][DeclineDisposes]_vars

C22_Witness ==
  \E a, d \in 1..Len(handlers) :
    /\ handlers[a].command = "approve" /\ handlers[a].pc = "done"
    /\ handlers[a].commitMessage = "fix: edited in the panel"
    /\ \E i \in 1..Len(commits) : commits[i].handler = a
    /\ handlers[d].command = "decline" /\ handlers[d].pc = "done"
    /\ panels = {}

\* at most one panel exists, and commitPanel refers to it exactly while it
\* exists
SinglePanel ==
  /\ Cardinality(panels) <= 1
  /\ panels = {} => commitPanel = NoPanel
  /\ panels # {} => panels = {commitPanel}

\* a call of showCommitPanel while a panel exists keeps that panel
ShowReuses ==
  shows' = shows + 1 /\ panels # {} =>
    panels' = panels /\ commitPanel' = commitPanel

\* C28: at most one review panel exists; commitPanel refers to it while it
\* exists and is undefined once it is disposed; showing the panel while one
\* exists reuses it.
C28_PanelSingleton == [](SinglePanel) /\ [][ShowReuses]_vars

C28_Witness ==
  /\ shows = MaxShows
  /\ panels = {1}
  /\ commitPanel = 1
  /\ \E h \in 1..Len(handlers) : handlers[h].pc = "failed"

\* the runs with a repo.add or a git apply --cached in flight
IndexWriters == {r \in Runs : runPc[r] \in {"adding", "applying"}}

\* C21: at no time are two index-writing staging operations (repo.add or
\* git apply --cached) in flight at once, also when the stage command is
\* invoked again while an earlier invocation is staging.
C21_IndexWritersSerialized == Cardinality(IndexWriters) <= 1

\* what a run does after staging
AfterStaging == {"read", "readEmpty", "parsed", "generated", "shown"}

\* C23: in every run the staged diff is read and structured, the message
\* generated and the panel shown only after the loop has passed every
\* working-tree change without an error, each step after the one before;
\* a run that reads an empty staged diff generates no message and shows no
\* panel.
C23_WorkflowOrdering ==
  \A r \in Runs :
    LET ev == runEvents[r]
    IN /\ ev \cap AfterStaging # {} =>
            runProcessed[r] = 1..Len(workingTreeChanges)
       /\ "readEmpty" \in ev => ev = {"readEmpty"}
       /\ "parsed" \in ev => "read" \in ev
       /\ "generated" \in ev => "parsed" \in ev
       /\ "shown" \in ev => "generated" \in ev
       /\ runPc[r] = "failed" => "shown" \notin ev

C23_Witness ==
  /\ Len(workingTreeChanges) = MaxChanges
  /\ \E k \in 1..Len(index) : index[k] # <<>>
  /\ \E r, q \in Runs :
       /\ "shown" \in runEvents[r]
       /\ "readEmpty" \in runEvents[q]

\* the lines of the k-th file diff in front of its first "@@" line
SegmentHeader(text, k) ==
  LET ls == FileSegmentLines(text, k)
      hs == {i \in 1..Len(ls) : StartsWith(ls[i], "@@")}
  IN SubSeq(ls, 1, IF hs = {} THEN Len(ls)
                   ELSE (CHOOSE i \in hs : \A j \in hs : i <= j) - 1)

\* C31: two file diffs with the same lines in front of their first "@@"
\* line get the same change type and the same isBinary, whatever their hunk
\* bodies hold.
C31_HeaderOnlyClassification ==
  parsePc = "parsed" =>
    /\ Len(diffs) = Len(DiffGitLines(stagedDiff))
    /\ \A j, k \in 1..Len(diffs) :
         SegmentHeader(stagedDiff, j) = SegmentHeader(stagedDiff, k) =>
           /\ diffs[j].type = diffs[k].type
           /\ diffs[j].isBinary = diffs[k].isBinary

\* C32: the text shown for an entry, the renderer's prefix followed by the
\* entry's content, is the diff line the entry was made from, so the "+",
\* "-" or space in front of the line is shown once.
C32_RenderingPreservesLine ==
  pc = "rendered" =>
    LET out == OutLines
    IN /\ Len(rendered) = Len(fileDiff.hunks)
       /\ \A k \in 1..Len(rendered) :
            LET body == WithoutMarkers(HunkBody(out, k))
            IN /\ Len(rendered[k]) = Len(body)
               /\ \A i \in 1..Len(body) : rendered[k][i] = body[i]

\* the runs whose git apply --cached has not ended
Applying == {r \in Runs : runPc[r] = "applying"}

\* C33: the temporary patch file of a change is there until the git apply
\* of that change has ended and is deleted then, whether the apply succeeds
\* or fails; no patch file is left when stageFilteredChanges has returned or
\* thrown.
C33_TempPatchCleanup ==
  /\ \A r \in Applying : runPatch[r] \in tempFiles
  /\ tempFiles \subseteq {runPatch[r] : r \in Applying}

\* what staging the j-th change puts into the index
StagedOf(j) ==
  LET change == workingTreeChanges[j]
  IN IF WholeFile(j) THEN StagedAdditions(change.diff)
     ELSE IF change.diff = "" THEN <<>>
     ELSE StagedAdditions(createFilteredPatch(change.diff, patterns))

\* C34: when git apply --cached fails for the k-th change,
\* stageFilteredChanges rejects, the failed apply is its last git call, no
\* change after the k-th is diffed, added or applied, and what the changes
\* before the k-th staged stays in the index.
C34_FailureInTheMiddle ==
  (stagePc = "rejected" /\ gitCalls # <<>> /\ gitCalls[Len(gitCalls)].op = "apply") =>
    LET k == gitCalls[Len(gitCalls)].change
    IN /\ cur = k
       /\ diff = workingTreeChanges[k].diff
       /\ \A i \in 1..(Len(gitCalls) - 1) : gitCalls[i].change < k
       /\ \A j \in 1..Len(workingTreeChanges) :
            index[j] = IF j < k THEN StagedOf(j) ELSE <<>>

C34_Witness ==
  /\ stagePc = "rejected"
  /\ Len(gitCalls) = 2
  /\ gitCalls[1] = [op |-> "add", change |-> 1]
  /\ gitCalls[2] = [op |-> "apply", change |-> 2]
  /\ index[1] # <<>>
  /\ index[2] = <<>>

\* the calls of repo.commit made for messages of panel p
CommitsOf(p) ==
  {i \in 1..Len(commits) : handlers[commits[i].handler].panel = p}

\* C35: repo.commit is called at most once for one review panel, also when
\* several "approve" messages arrive before the panel is disposed.
C35_OneCommitPerReview ==
  \A p \in 1..shows : Cardinality(CommitsOf(p)) <= 1

\* the step in which repo.commit or git reset of the handler h fails
Fails(h) == handlers[h].awaited = "pending" /\ handlers'[h].awaited = "rejected"

\* a failing handler leaves the panel and the reference as they are and
\* shows no success notification
FailureKeepsSession ==
  \A h \in 1..Len(handlers) :
    Fails(h) =>
      /\ panels' = panels
      /\ commitPanel' = commitPanel
      /\ ~handlers'[h].notified

\* C36: when repo.commit rejects after an approve, or git reset fails after
\* a decline, the panel is not disposed, commitPanel still refers to it and
\* no success notification is shown.
C36_FailedDecisionKeepsSession ==
  /\ [](\A h \in 1..Len(handlers) :
          handlers[h].notified <=> handlers[h].awaited = "resolved")
  /\ [][FailureKeepsSession]_vars

C36_Witness ==
  /\ Len(handlers) = 2
  /\ handlers[1].command = "approve" /\ handlers[1].awaited = "rejected"
  /\ handlers[2].command = "decline" /\ handlers[2].awaited = "rejected"
  /\ panels = {1} /\ commitPanel = 1
  /\ handlers[1].panel = 1 /\ handlers[2].panel = 1

\* the call has contacted the provider
Contacted(provider) == \E i \in 1..Len(genCalls) : genCalls[i] = provider

\* the built-in model streamed nothing but backticks and white space
StreamedNothing ==
  \A i \in 1..Len(genEnv.fragments) :
    \A c \in 1..Len(genEnv.fragments[i]) :
      CharAt(genEnv.fragments[i], c) \in {"#", " ", "\t", "\r", "\n"}

\* C37: a message that generateCommitMessage returns is not empty; it is
\* "feat: update codebase" when the staged diff is empty, when the model
\* that answers returns an empty text, and when no model is available and no
\* API key is configured.
C37_MessageNeverEmpty ==
  genPc = "returned" =>
    /\ genMessage # ""
    /\ genEnv.diff = "" => genMessage = "feat: update codebase"
    /\ genEnv.diff # "" /\ genEnv.lm = "answers" /\ StreamedNothing =>
         genMessage = "feat: update codebase"
    /\ genEnv.diff # "" /\ Contacted("openai") /\ genEnv.content = "" =>
         genMessage = "feat: update codebase"
    /\ genEnv.diff # "" /\ genEnv.lm = "none" /\ genEnv.apiKey = "" =>
         genMessage = "feat: update codebase"

C37_Witness ==
  /\ genPc = "returned"
  /\ genEnv.diff # ""
  /\ genEnv.lm = "answers"
  /\ genEnv.fragments = <<" # ", "\n">>
  /\ genMessage = "feat: update codebase"

\* C38: OpenAI is contacted only after the built-in model was tried and gave
\* no model or threw, and only with an API key configured; when the
\* built-in model answers, OpenAI is not contacted.
C38_ProviderOrdering ==
  /\ Contacted("openai") =>
       /\ genCalls[1] = "selectChatModels"
       /\ genCalls[Len(genCalls)] = "openai"
       /\ genEnv.lm # "answers"
       /\ genEnv.apiKey # ""
       /\ genEnv.diff # ""
  /\ Contacted("sendRequest") /\ genEnv.lm = "answers" => ~Contacted("openai")
  /\ Cardinality({i \in 1..Len(genCalls) : genCalls[i] = "openai"}) <= 1

C38_Witness ==
  /\ genPc = "returned"
  /\ genCalls = <<"selectChatModels", "sendRequest", "openai">>
  /\ genEnv.lm = "streamThrows"
  /\ genMessage = "fix: drop"

\* C39: for every diff the earlier createFilteredPatch, with the prefixes
\* console.log(, console.error( and console.warn( in its code, and the later
\* one run with the single rule "^\s*console\.(log|error|warn)\(" return
\* the same text.
C39_VersionEquivalence ==
  (pc = "filtered" /\ earlier.done /\ patterns = <<ConsolePattern>>) =>
    filteredPatch = earlier.out

C39_Witness ==
  /\ pc = "filtered"
  /\ earlier.done
  /\ patterns = <<ConsolePattern>>
  /\ diff = "@@ -10,1 +10,2 @@ fn()\n+\tconsole.warn('w') \n+keep() // console.log(\n+console.log"
  /\ earlier.out = "@@ -10,1 +10,1 @@\n+keep() // console.log(\n+console.log"

====
